---- MODULE Spec2Model ----
(***************************************************************************)
(* Watchtower dashboard: the bubbletea event loop (ui.Model.Update), the   *)
(* fetch commands it batches, the brief request path and the on-disk brief *)
(* cache (intel.LoadCachedBrief / intel.SaveCachedBrief).                  *)
(***************************************************************************)
EXTENDS Integers, Sequences, FiniteSets, TLC

\* ------------------------------------------------------------------ bounds

\* Refresh requests after the startup one (tick messages and 'r' keys).
MaxRefresh == 1
\* Sources whose fetches answer within the explored horizon; the fetches of
\* the other sources stay in flight.
MaxActive == 3
\* Distinct non-empty payloads a fetch can return.
MaxPayload == 2
\* 'b' and 'B' key presses.
MaxBriefKeys == 1
\* The configured brief_cache_minutes when the cache is enabled, in clock units.
CacheTTL == 1
\* Clock units the wall clock advances within the horizon.
MaxTime == 2
\* Feeds of one news fetch.
MaxFeeds == 2
\* Entries of one feed.
MaxEntries == 2
\* Longest news list a result message carries.
MaxNews == 3
\* Largest viewport height, content length, header length and selected index
\* handed to scrollNewsIntoView.
MaxHeight == 5
MaxLines == 12
MaxHeader == 2
MaxIdx == 3
\* Longest headline handed to classifyThreat, in words.
MaxWords == 2
\* Rows of a COUNTRY_RISKS section.
MaxRows == 3
\* Country risks of the brief held, and days of the forecast held.
MaxRisks == 2
MaxForecast == 1

\* ------------------------------------------------------------------ sources

NonBrief == {"global", "local", "crypto", "stocks", "commodities", "poly", "weather"}
Sources == NonBrief \cup {"brief"}
News == {"global", "local"}

NoErr == ""
Errors == {"timeout"}
NoBrief == [none |-> TRUE]
NoCB == [none |-> TRUE]
NoMsg == [none |-> TRUE]
NoLoad == [none |-> TRUE]
NoSave == [none |-> TRUE]
NoApi == [none |-> TRUE]
NoGroup == [none |-> TRUE]
NoView == [none |-> TRUE]
NoCall == [none |-> TRUE]

\* Payload 0 is Go's nil value (nil slice, nil pointer).
Payloads == 0..MaxPayload

\* ------------------------------------------------------------------ state

VARIABLES
    cfg,        \* *config.Config handed to NewModel
    m,          \* ui.Model
    focus,      \* sources whose fetches answer within the horizon
    tasks,      \* fetch commands in flight (goroutines started by tea.Batch)
    ticks,      \* tea.Tick timers scheduled
    tgen,       \* which timer is scheduled: flips when a tick schedules the next one
    nreq,       \* refresh requests issued so far (0 is the startup one)
    delivered,  \* per request and source: result messages handed to Update
    hist,       \* per source: the last message Update processed for it
    lastMsg,    \* the message Update processed last
    btasks,     \* fetchBrief / loadCachedBrief commands in flight
    nbrief,     \* brief commands started so far
    nkeys,      \* 'b' / 'B' keys pressed so far
    savers,     \* go intel.SaveCachedBrief goroutines in flight
    fs,         \* ~/.cache/watchtower: brief.json and brief.json.tmp
    lastSave,   \* the SaveCachedBrief call whose rename succeeded last
    now,        \* wall clock
    api,        \* a direct caller of the intel cache functions
    grp,        \* one group fetch: its sub-task goroutines and result slots
    view,       \* ui.Model's tab, news selection and viewports
    call,       \* one call of a function of the repository: arguments and result
    setup       \* the first-run wizard: its SetupModel, commands in flight, config file

dashVars == <<cfg, m, focus, tasks, ticks, tgen, nreq, delivered, hist, lastMsg>>
briefVars == <<btasks, nbrief, nkeys, savers, fs, lastSave, now>>
auxVars == <<api, grp>>
pureVars == <<view, call, setup>>
vars == <<dashVars, briefVars, auxVars, pureVars>>

Requests == 0..MaxRefresh

\* ------------------------------------------------------------------ commands

fetchCmd(src, req) == [kind |-> "fetch", src |-> src, req |-> req]

\* A faulty doRefreshAll that leaves the weather fetch out of the batch.
doRefreshAllWithoutWeather(req) ==
    {fetchCmd(s, req) : s \in NonBrief \ {"weather"}}

doRefreshAll(req) == {fetchCmd(s, req) : s \in NonBrief}

\* What the source clients can return: (payload, err). fetchFeeds always
\* returns a nil error.
FetchOutcomes(src) ==
    IF src \in News
    THEN {[src |-> src, payload |-> p, err |-> NoErr] : p \in Payloads}
    ELSE {[src |-> src, payload |-> p, err |-> NoErr] : p \in 1..MaxPayload}
         \cup {[src |-> src, payload |-> 0, err |-> e] : e \in Errors}

\* ------------------------------------------------------------------ time

\* time.Time: the wall-clock instant and whether a monotonic reading rides along.
TimeNow(t) == [wall |-> t, mono |-> TRUE]
\* Time.Equal: the same instant.
TimeEqual(a, b) == a.wall = b.wall
\* time.Since
Since(t, at) == at - t.wall

\* ------------------------------------------------------------------ briefs

\* What parseBriefResponse hands back for a 200 response.
SynthBodies ==
    { [Summary |-> "s1", KeyThreats |-> <<"t1">>,
       CountryRisks |-> <<[Country |-> "c1", Score |-> 50, Reason |-> "r1"]>>] }

\* What the chat-completions call can do: fail, or answer with a body.
Responses ==
    {[err |-> "groq request failed", body |-> NoCB]}
    \cup {[err |-> NoErr, body |-> b] : b \in SynthBodies}

GenerateBrief(apiKey, items, t, resp) ==
    IF apiKey = ""
    THEN [brief |-> [Summary |-> "No GROQ_API_KEY set", KeyThreats |-> <<>>,
                     CountryRisks |-> <<>>, GeneratedAt |-> TimeNow(t),
                     Model |-> "none"],
          err |-> NoErr, called |-> FALSE]
    ELSE IF items = 0
    THEN [brief |-> [Summary |-> "No news items available to summarize.",
                     KeyThreats |-> <<>>, CountryRisks |-> <<>>,
                     GeneratedAt |-> TimeNow(t), Model |-> ""],
          err |-> NoErr, called |-> FALSE]
    ELSE IF resp.err # NoErr
    THEN [brief |-> NoBrief, err |-> resp.err, called |-> TRUE]
    ELSE [brief |-> [Summary |-> resp.body.Summary,
                     KeyThreats |-> resp.body.KeyThreats,
                     CountryRisks |-> resp.body.CountryRisks,
                     GeneratedAt |-> TimeNow(t), Model |-> "llama-3.1-8b-instant"],
          err |-> NoErr, called |-> TRUE]

\* ------------------------------------------------------------------ disk cache

\* A file: absent, or an inode's bytes. "json" is one complete cachedBrief
\* record; "empty" is a file truncated and not yet written; "garbled" is a
\* record overwritten in part; "corrupt" is undecodable bytes found at startup.
Absent == [kind |-> "absent", cb |-> NoCB, len |-> 0]
EmptyFile == [kind |-> "empty", cb |-> NoCB, len |-> 0]
Corrupt == [kind |-> "corrupt", cb |-> NoCB, len |-> 1]
\* What a load that failed with an I/O error got to see.
Unreadable == [kind |-> "unreadable", cb |-> NoCB, len |-> 0]

\* A faulty conversion that leaves the model field out of the record.
ToCachedWithoutModel(b) ==
    [summary |-> b.Summary, key_threats |-> b.KeyThreats,
     country_risks |-> b.CountryRisks, generated_at |-> b.GeneratedAt.wall,
     model |-> ""]

\* cachedBrief{...} built by SaveCachedBrief; Time.MarshalJSON writes the
\* wall-clock instant (RFC 3339), the monotonic reading is not encoded.
ToCached(b) ==
    [summary |-> b.Summary, key_threats |-> b.KeyThreats,
     country_risks |-> b.CountryRisks, generated_at |-> b.GeneratedAt.wall,
     model |-> b.Model]

\* Bytes of the indented JSON, up to a constant.
EncLen(cb) ==
    1 + Len(cb.key_threats) + Len(cb.country_risks)
      + (IF cb.summary = "" THEN 0 ELSE 1)

\* json.MarshalIndent(cb)
Marshal(cb) == [kind |-> "json", cb |-> cb, len |-> EncLen(cb)]

\* json.Unmarshal(data, &cb)
Unmarshal(file) ==
    IF file.kind = "json" THEN [ok |-> TRUE, cb |-> file.cb]
    ELSE [ok |-> FALSE, cb |-> NoCB]

\* &Brief{...} built by LoadCachedBrief
FromCached(cb) ==
    [Summary |-> cb.summary, KeyThreats |-> cb.key_threats,
     CountryRisks |-> cb.country_risks,
     GeneratedAt |-> [wall |-> cb.generated_at, mono |-> FALSE],
     Model |-> cb.model]

\* write(2) of data at offset 0 of an open file holding old.
WriteAt(old, data) ==
    IF data.len >= old.len THEN data
    ELSE [kind |-> "garbled", cb |-> NoCB, len |-> old.len]

\* A faulty load that never tests the record's age.
LoadCachedBriefAnyAge(fsys, maxAge, t, io) ==
    IF io = "nopath" THEN [brief |-> NoBrief, err |-> "path"]
    ELSE IF fsys.cache.kind = "absent" THEN [brief |-> NoBrief, err |-> NoErr]
    ELSE IF io = "noread" THEN [brief |-> NoBrief, err |-> "read"]
    ELSE IF fsys.cache.kind # "json" THEN [brief |-> NoBrief, err |-> NoErr]
    ELSE [brief |-> [Summary |-> fsys.cache.cb.summary,
                     KeyThreats |-> fsys.cache.cb.key_threats,
                     CountryRisks |-> fsys.cache.cb.country_risks,
                     GeneratedAt |-> [wall |-> fsys.cache.cb.generated_at, mono |-> FALSE],
                     Model |-> fsys.cache.cb.model],
          err |-> NoErr]

\* A faulty load that returns the decoder's error for an undecodable file.
LoadCachedBriefDecodeError(fsys, maxAge, t, io) ==
    IF io = "nopath" THEN [brief |-> NoBrief, err |-> "path"]
    ELSE IF fsys.cache.kind = "absent" THEN [brief |-> NoBrief, err |-> NoErr]
    ELSE IF io = "noread" THEN [brief |-> NoBrief, err |-> "read"]
    ELSE IF fsys.cache.kind # "json" THEN [brief |-> NoBrief, err |-> "decode"]
    ELSE IF maxAge > 0 /\ t - fsys.cache.cb.generated_at > maxAge
    THEN [brief |-> NoBrief, err |-> NoErr]
    ELSE [brief |-> [Summary |-> fsys.cache.cb.summary,
                     KeyThreats |-> fsys.cache.cb.key_threats,
                     CountryRisks |-> fsys.cache.cb.country_risks,
                     GeneratedAt |-> [wall |-> fsys.cache.cb.generated_at, mono |-> FALSE],
                     Model |-> fsys.cache.cb.model],
          err |-> NoErr]

LoadIO == {"ok", "nopath", "noread"}

\* LoadCachedBrief(maxAge) at time t; io is what the file system does.
LoadCachedBrief(fsys, maxAge, t, io) ==
    IF io = "nopath" THEN [brief |-> NoBrief, err |-> "path"]
    ELSE IF fsys.cache.kind = "absent" THEN [brief |-> NoBrief, err |-> NoErr]
    ELSE IF io = "noread" THEN [brief |-> NoBrief, err |-> "read"]
    ELSE LET d == Unmarshal(fsys.cache)
         IN  IF ~d.ok THEN [brief |-> NoBrief, err |-> NoErr]
             ELSE IF maxAge > 0 /\ t - d.cb.generated_at > maxAge
             THEN [brief |-> NoBrief, err |-> NoErr]
             ELSE [brief |-> FromCached(d.cb), err |-> NoErr]

\* ------------------------------------------------------------------ Update

NewModel ==
    [ data    |-> [s \in NonBrief |-> 0],
      brief   |-> NoBrief,
      loading |-> {},
      errors  |-> [s \in Sources |-> NoErr] ]

Upd(mm, cmds) == [m |-> mm, cmds |-> cmds]

\* fetchBrief(apiKey, items, cacheMins, forceRefresh) as a command value.
fetchBriefCmd(apiKey, items, cacheMins, force) ==
    [kind |-> "brief", apiKey |-> apiKey, items |-> items,
     cacheMins |-> cacheMins, force |-> force]

\* A faulty handler that leaves the error entry in place on success.
StoreResultKeepingError(mm, src, msg) ==
    IF msg.err # NoErr
    THEN [mm EXCEPT !.loading = @ \ {src}, !.errors[src] = msg.err]
    ELSE [mm EXCEPT !.loading = @ \ {src}, !.data[src] = msg.payload]

\* A faulty commodityMsg case that assigns the stock slice.
UpdateCommodityIntoStocks(mm, msg) ==
    Upd(IF msg.err # NoErr
        THEN [mm EXCEPT !.loading = @ \ {"commodities"}, !.errors["stocks"] = msg.err]
        ELSE [mm EXCEPT !.loading = @ \ {"commodities"}, !.data["stocks"] = msg.payload,
                        !.errors["stocks"] = NoErr],
        {})

\* A faulty briefMsg case that never starts the save.
UpdateBriefWithoutSave(mm, msg) ==
    IF msg.err # NoErr
    THEN Upd([mm EXCEPT !.loading = @ \ {"brief"}, !.errors["brief"] = msg.err], {})
    ELSE Upd([mm EXCEPT !.loading = @ \ {"brief"}, !.brief = msg.brief,
                        !.errors["brief"] = NoErr], {})

\* case cryptoMsg, stockMsg, commodityMsg, polymarketMsg, weatherMsg,
\* localNewsMsg, globalNewsMsg: the assignments on the source's own slice.
StoreResult(mm, src, msg) ==
    IF msg.err # NoErr
    THEN [mm EXCEPT !.loading = @ \ {src}, !.errors[src] = msg.err]
    ELSE [mm EXCEPT !.loading = @ \ {src}, !.data[src] = msg.payload,
                    !.errors[src] = NoErr]

UpdateLocalNews(mm, msg) == Upd(StoreResult(mm, "local", msg), {})
UpdateCrypto(mm, msg) == Upd(StoreResult(mm, "crypto", msg), {})
UpdateStock(mm, msg) == Upd(StoreResult(mm, "stocks", msg), {})
UpdateCommodity(mm, msg) == Upd(StoreResult(mm, "commodities", msg), {})
UpdatePolymarket(mm, msg) == Upd(StoreResult(mm, "poly", msg), {})
UpdateWeather(mm, msg) == Upd(StoreResult(mm, "weather", msg), {})

\* A faulty globalNewsMsg case that requests a brief although one is held.
UpdateGlobalNewsAlways(mm, c, msg) ==
    IF msg.err = NoErr /\ c.GroqAPIKey # ""
    THEN Upd([StoreResult(mm, "global", msg) EXCEPT !.loading = @ \cup {"brief"}],
             {fetchBriefCmd(c.GroqAPIKey, msg.payload, c.BriefCacheMins, FALSE)})
    ELSE Upd(StoreResult(mm, "global", msg), {})

UpdateGlobalNews(mm, c, msg) ==
    LET m1 == StoreResult(mm, "global", msg)
    IN  IF msg.err = NoErr /\ c.GroqAPIKey # "" /\ mm.brief = NoBrief
        THEN Upd([m1 EXCEPT !.loading = @ \cup {"brief"}],
                 {fetchBriefCmd(c.GroqAPIKey, msg.payload, c.BriefCacheMins, FALSE)})
        ELSE Upd(m1, {})

\* case briefMsg
UpdateBrief(mm, msg) ==
    LET m1 == [mm EXCEPT !.loading = @ \ {"brief"}]
    IN  IF msg.err # NoErr
        THEN Upd([m1 EXCEPT !.errors["brief"] = msg.err], {})
        ELSE Upd([m1 EXCEPT !.brief = msg.brief, !.errors["brief"] = NoErr],
                 IF msg.fromCache THEN {}
                 ELSE {[kind |-> "save", b |-> msg.brief]})

\* A faulty tickMsg case that does not schedule the next tick.
UpdateTickOnce(mm, req) == Upd(mm, doRefreshAll(req))

\* case tickMsg
UpdateTick(mm, req) ==
    Upd(mm, doRefreshAll(req) \cup {[kind |-> "tick"]})

\* case "r"
UpdateKeyR(mm, req) == Upd(mm, doRefreshAll(req))

\* case "b" (force = FALSE), case "B" (force = TRUE)
UpdateKeyB(mm, c, force) ==
    IF c.GroqAPIKey # ""
    THEN Upd([mm EXCEPT !.loading = @ \cup {"brief"}],
             {fetchBriefCmd(c.GroqAPIKey, mm.data["global"], c.BriefCacheMins, force)})
    ELSE Upd(mm, {})

\* renderBriefPanel: which of its branches draws the panel, and the brief and
\* the error text it writes.
renderBriefPanel(mm, c) ==
    IF c.GroqAPIKey = ""
    THEN [panel |-> "nokey", brief |-> NoBrief, err |-> NoErr]
    ELSE IF "brief" \in mm.loading
    THEN [panel |-> "generating", brief |-> NoBrief, err |-> NoErr]
    ELSE IF mm.errors["brief"] # NoErr
    THEN [panel |-> "retry", brief |-> NoBrief, err |-> mm.errors["brief"]]
    ELSE IF mm.brief = NoBrief
    THEN [panel |-> IF mm.data["global"] = 0 THEN "waiting" ELSE "press b",
          brief |-> NoBrief, err |-> NoErr]
    ELSE [panel |-> "brief", brief |-> mm.brief, err |-> NoErr]

\* The result-message cases of Update, by message type.
UpdateMsg(mm, c, msg) ==
    CASE msg.src = "global"      -> UpdateGlobalNews(mm, c, msg)
      [] msg.src = "local"       -> UpdateLocalNews(mm, msg)
      [] msg.src = "crypto"      -> UpdateCrypto(mm, msg)
      [] msg.src = "stocks"      -> UpdateStock(mm, msg)
      [] msg.src = "commodities" -> UpdateCommodity(mm, msg)
      [] msg.src = "poly"        -> UpdatePolymarket(mm, msg)
      [] msg.src = "weather"     -> UpdateWeather(mm, msg)
      [] msg.src = "brief"       -> UpdateBrief(mm, msg)

\* ------------------------------------------------------------------ commands in flight

Fetches(cmds) == {c \in cmds : c.kind = "fetch"}
TickCmds(cmds) == {c \in cmds : c.kind = "tick"}

\* A started fetchBrief command: pc "start", then "miss" after a cache load
\* that gave nothing, then "ready" with its message.
BriefTasks(cmds, id) ==
    {[id |-> id, kind |-> "fetch", apiKey |-> c.apiKey, items |-> c.items,
      cacheMins |-> c.cacheMins, force |-> c.force, pc |-> "start",
      load |-> NoLoad, synth |-> FALSE, msg |-> NoMsg]
        : c \in {x \in cmds : x.kind = "brief"}}

\* loadCachedBrief(cfg), fired by Model.Init.
StartupLoad(c) ==
    [id |-> 0, kind |-> "startup", apiKey |-> c.GroqAPIKey, items |-> 0,
     cacheMins |-> c.BriefCacheMins, force |-> FALSE, pc |-> "start",
     load |-> NoLoad, synth |-> FALSE, msg |-> NoMsg]

\* A SaveCachedBrief call in progress: pc "start", "opened" (temp file open
\* and truncated), "written"; fd is where the inode it opened lives now;
\* alone is whether no other call had the temp file open meanwhile.
NewSaver(id, b) == [id |-> id, b |-> b, pc |-> "start", fd |-> "none", alone |-> TRUE]

Savers(cmds, id) ==
    {NewSaver(id, c.b) : c \in {x \in cmds : x.kind = "save"}}

\* Everything an Update call returns or starts, put in flight.
Launch(u, doneTasks, doneBTasks, id) ==
    /\ m' = u.m
    /\ tasks' = (tasks \ doneTasks) \cup Fetches(u.cmds)
    /\ btasks' = (btasks \ doneBTasks) \cup BriefTasks(u.cmds, nbrief)
    /\ nbrief' = nbrief + Cardinality(BriefTasks(u.cmds, nbrief))
    /\ savers' = savers \cup Savers(u.cmds, id)

\* ------------------------------------------------------------------ actions

\* A fetch command returns and bubbletea hands its message to Update.
DeliverTask(t) ==
    \E msg \in FetchOutcomes(t.src) :
        /\ t \in tasks
        /\ t.src \in focus
        /\ Launch(UpdateMsg(m, cfg, msg), {t}, {}, 0)
        /\ delivered' = [delivered EXCEPT ![t.req][t.src] = @ + 1]
        /\ hist' = [hist EXCEPT ![t.src] =
                      [seen |-> TRUE, err |-> msg.err,
                       ok |-> IF msg.err = NoErr THEN msg.payload ELSE @.ok,
                       req |-> t.req]]
        /\ lastMsg' = msg
        /\ UNCHANGED <<cfg, focus, ticks, tgen, nreq, nkeys, fs, lastSave, now, auxVars, pureVars>>

Deliver == \E t \in tasks : DeliverTask(t)

\* The refresh timer fires: tickMsg.
Tick ==
    /\ ticks > 0
    /\ nreq <= MaxRefresh
    /\ LET u == UpdateTick(m, nreq)
       IN  /\ Launch(u, {}, {}, 0)
           /\ ticks' = ticks - 1 + Cardinality(TickCmds(u.cmds))
           /\ tgen' = (IF TickCmds(u.cmds) = {} THEN tgen ELSE ~tgen)
    /\ nreq' = nreq + 1
    /\ UNCHANGED <<cfg, focus, delivered, hist, lastMsg, nkeys, fs, lastSave, now, auxVars, pureVars>>

\* A tickMsg beyond the explored requests: the timer is rescheduled, the
\* fetch commands of that refresh are not followed.
TickLate ==
    /\ ticks > 0
    /\ nreq > MaxRefresh
    /\ LET u == UpdateTick(m, nreq)
       IN  /\ m' = u.m
           /\ ticks' = ticks - 1 + Cardinality(TickCmds(u.cmds))
           /\ tgen' = (IF TickCmds(u.cmds) = {} THEN tgen ELSE ~tgen)
    /\ UNCHANGED <<cfg, focus, tasks, nreq, delivered, hist, lastMsg, briefVars, auxVars, pureVars>>

KeyR ==
    /\ nreq <= MaxRefresh
    /\ LET u == UpdateKeyR(m, nreq)
       IN  /\ Launch(u, {}, {}, 0)
           /\ ticks' = ticks + Cardinality(TickCmds(u.cmds))
           /\ tgen' = (IF TickCmds(u.cmds) = {} THEN tgen ELSE ~tgen)
    /\ nreq' = nreq + 1
    /\ UNCHANGED <<cfg, focus, delivered, hist, lastMsg, nkeys, fs, lastSave, now, auxVars, pureVars>>

\* 'b' and 'B'
KeyB ==
    \E force \in BOOLEAN :
        /\ nkeys < MaxBriefKeys
        /\ Launch(UpdateKeyB(m, cfg, force), {}, {}, 0)
        /\ nkeys' = nkeys + 1
        /\ UNCHANGED <<cfg, focus, ticks, tgen, nreq, delivered, hist, lastMsg, fs, lastSave, now, auxVars, pureVars>>

\* A faulty test that reads the cache for a forced request too.
ReadsCacheIgnoringForce(t) ==
    IF t.kind = "startup" THEN t.cacheMins # 0 ELSE t.cacheMins > 0

\* fetchBrief line 1468 / loadCachedBrief line 1485: is the cache read?
ReadsCache(t) ==
    IF t.kind = "startup" THEN t.cacheMins # 0
    ELSE ~t.force /\ t.cacheMins > 0

Step(t, t2) == btasks' = (btasks \ {t}) \cup {t2}

\* The command's call of intel.LoadCachedBrief.
BriefLoad ==
    \E t \in btasks : \E io \in LoadIO :
        /\ "brief" \in focus
        /\ t.pc = "start"
        /\ ReadsCache(t)
        /\ LET r == LoadCachedBrief(fs, t.cacheMins, now, io)
               seen == [file |-> IF io = "ok" \/ (io = "noread" /\ fs.cache.kind = "absent")
                                 THEN fs.cache ELSE Unreadable,
                        at |-> now, err |-> r.err]
           IN  IF r.err = NoErr /\ r.brief # NoBrief
               THEN Step(t, [t EXCEPT !.pc = "ready", !.load = seen,
                               !.msg = [src |-> "brief", brief |-> r.brief,
                                        err |-> NoErr, fromCache |-> TRUE]])
               ELSE IF t.kind = "startup"
               THEN Step(t, [t EXCEPT !.pc = "done", !.load = seen])
               ELSE Step(t, [t EXCEPT !.pc = "miss", !.load = seen])
        /\ UNCHANGED <<dashVars, nbrief, nkeys, savers, fs, lastSave, now, auxVars, pureVars>>

\* loadCachedBrief with BriefCacheMins == 0 returns nil: no message.
BriefSkip ==
    \E t \in btasks :
        /\ "brief" \in focus
        /\ t.pc = "start" /\ t.kind = "startup" /\ ~ReadsCache(t)
        /\ Step(t, [t EXCEPT !.pc = "done"])
        /\ UNCHANGED <<dashVars, nbrief, nkeys, savers, fs, lastSave, now, auxVars, pureVars>>

\* The command's call of intel.GenerateBrief.
BriefGenerate ==
    \E t \in btasks : \E resp \in Responses :
        /\ "brief" \in focus
        /\ t.kind = "fetch"
        /\ t.pc = "miss" \/ (t.pc = "start" /\ ~ReadsCache(t))
        /\ LET g == GenerateBrief(t.apiKey, t.items, now, resp)
           IN  Step(t, [t EXCEPT !.pc = "ready", !.synth = TRUE,
                          !.msg = [src |-> "brief", brief |-> g.brief,
                                   err |-> g.err, fromCache |-> FALSE]])
        /\ UNCHANGED <<dashVars, nbrief, nkeys, savers, fs, lastSave, now, auxVars, pureVars>>

\* The brief command's message reaches Update.
BriefDeliver ==
    \E t \in btasks :
        /\ "brief" \in focus
        /\ t.pc = "ready"
        /\ Launch(UpdateMsg(m, cfg, t.msg), {}, {t}, t.id)
        /\ hist' = [hist EXCEPT !["brief"] =
                      [seen |-> TRUE, err |-> t.msg.err,
                       ok |-> IF t.msg.err = NoErr THEN t.msg.brief ELSE @.ok,
                       saw |-> IF t.load = NoLoad THEN "none" ELSE t.load.file.kind]]
        /\ lastMsg' = t.msg
        /\ UNCHANGED <<cfg, focus, ticks, tgen, nreq, delivered, nkeys, fs, lastSave, now, auxVars, pureVars>>

\* ------------------------------------------------------------------ SaveCachedBrief

SaveIO == {"ok", "fail"}

\* A faulty save that writes brief.json in place.
SaveTargetInPlace == "path"

\* tmp := path + ".tmp": the file os.WriteFile is given.
SaveTarget == "tmp"

\* b == nil, cacheFilePath, json.MarshalIndent, and os.WriteFile's
\* OpenFile(tmp, O_WRONLY|O_CREATE|O_TRUNC).
SaveOpen ==
    \E s \in savers : \E io \in SaveIO :
        /\ s.pc = "start"
        /\ IF s.b = NoBrief \/ io = "fail"
           THEN /\ savers' = savers \ {s}
                /\ fs' = fs
           ELSE LET busy == {x \in savers : x.pc \in {"opened", "written"}}
                IN  /\ savers' = (savers \ (busy \cup {s}))
                                 \cup {[x EXCEPT !.alone = FALSE] : x \in busy}
                                 \cup {[s EXCEPT !.pc = "opened", !.fd = SaveTarget,
                                                 !.alone = (busy = {})]}
                    /\ fs' = IF SaveTarget = "tmp"
                             THEN [fs EXCEPT !.tmp = EmptyFile]
                             ELSE [fs EXCEPT !.cache = EmptyFile]
        /\ UNCHANGED <<dashVars, btasks, nbrief, nkeys, lastSave, now, auxVars, pureVars>>

\* os.WriteFile's Write and Close, on the inode opened.
SaveWrite ==
    \E s \in savers : \E io \in SaveIO :
        /\ s.pc = "opened"
        /\ IF io = "fail"
           THEN /\ savers' = savers \ {s}
                /\ fs' = fs
           ELSE /\ savers' = (savers \ {s}) \cup {[s EXCEPT !.pc = "written"]}
                /\ fs' = CASE s.fd = "tmp" ->
                                [fs EXCEPT !.tmp = WriteAt(@, Marshal(ToCached(s.b)))]
                           [] s.fd = "path" ->
                                [fs EXCEPT !.cache = WriteAt(@, Marshal(ToCached(s.b)))]
                           [] OTHER -> fs
        /\ UNCHANGED <<dashVars, btasks, nbrief, nkeys, lastSave, now, auxVars, pureVars>>

\* Where an open inode lives after brief.json.tmp was renamed over brief.json.
Renamed(s) ==
    [s EXCEPT !.fd = CASE @ = "tmp" -> "path" [] @ = "path" -> "gone" [] OTHER -> @]

\* _ = os.Rename(tmp, path)
SaveRename ==
    \E s \in savers : \E io \in SaveIO :
        /\ s.pc = "written"
        /\ IF fs.tmp.kind = "absent" \/ io = "fail"
           THEN /\ savers' = savers \ {s}
                /\ fs' = fs
                /\ lastSave' = lastSave
           ELSE /\ savers' = {Renamed(x) : x \in savers \ {s}}
                /\ fs' = [cache |-> fs.tmp, tmp |-> Absent]
                /\ lastSave' = [b |-> s.b, alone |-> s.alone]
        /\ UNCHANGED <<dashVars, btasks, nbrief, nkeys, now, auxVars, pureVars>>

\* The wall clock advances.
AdvanceTime ==
    /\ now < MaxTime
    /\ now' = now + 1
    /\ UNCHANGED <<dashVars, btasks, nbrief, nkeys, savers, fs, lastSave, auxVars, pureVars>>

\* ------------------------------------------------------------------ cache API

\* Briefs a caller can hand to SaveCachedBrief at time t: generated now or
\* earlier, fresh from GenerateBrief (monotonic reading) or loaded from disk.
ApiBriefs(t) ==
    {[Summary |-> b.Summary, KeyThreats |-> b.KeyThreats,
      CountryRisks |-> b.CountryRisks,
      GeneratedAt |-> [wall |-> g, mono |-> mono], Model |-> model]
        : b \in SynthBodies, g \in 0..t, mono \in BOOLEAN,
          model \in {"llama-3.1-8b-instant", ""}}

MaxAges == {-1, 0, CacheTTL}

\* SaveCachedBrief(b) is called.
ApiSave ==
    \E b \in ApiBriefs(now) \cup {NoBrief} :
        /\ api.pc = "idle"
        /\ api' = [pc |-> "saving", op |-> "save", b |-> b, ok |-> FALSE,
                   maxAge |-> 0, at |-> now, io |-> "ok",
                   res |-> [brief |-> NoBrief, err |-> NoErr], prev |-> NoBrief,
                   before |-> fs.cache]
        /\ savers' = {NewSaver(0, b)}
        /\ lastSave' = NoSave
        /\ UNCHANGED <<dashVars, btasks, nbrief, nkeys, fs, now, grp, pureVars>>

\* SaveCachedBrief returns.
ApiSaveReturn ==
    /\ api.pc = "saving"
    /\ savers = {}
    /\ api' = [api EXCEPT !.pc = "idle", !.ok = (lastSave # NoSave)]
    /\ UNCHANGED <<dashVars, briefVars, grp, pureVars>>

\* LoadCachedBrief(maxAge) is called and returns.
ApiLoad ==
    \E maxAge \in MaxAges : \E io \in LoadIO :
        /\ api.pc = "idle"
        /\ api' = [pc |-> "idle", op |-> "load", b |-> NoBrief, ok |-> FALSE,
                   maxAge |-> maxAge, at |-> now, io |-> io,
                   res |-> LoadCachedBrief(fs, maxAge, now, io),
                   prev |-> IF api.op = "save" /\ api.ok THEN api.b ELSE NoBrief,
                   before |-> fs.cache]
        /\ UNCHANGED <<dashVars, briefVars, grp, pureVars>>

\* ClearBriefCache()
ApiClear ==
    /\ api.pc = "idle"
    /\ api.op # "clear"
    /\ api' = [pc |-> "idle", op |-> "clear", b |-> NoBrief, ok |-> FALSE,
               maxAge |-> 0, at |-> now, io |-> "ok",
               res |-> [brief |-> NoBrief, err |-> NoErr], prev |-> NoBrief,
               before |-> fs.cache]
    /\ fs' = [fs EXCEPT !.cache = Absent]
    /\ UNCHANGED <<dashVars, btasks, nbrief, nkeys, savers, lastSave, now, grp, pureVars>>

minInt(a, b) == IF a < b THEN a ELSE b
maxInt(a, b) == IF a > b THEN a ELSE b

\* ------------------------------------------------------------------ threat classifier

\* ThreatLevel (ThreatInfo = iota ... ThreatCritical).
ThreatInfo == 0
ThreatLow == 1
ThreatMedium == 2
ThreatHigh == 3
ThreatCritical == 4

threatKeywords ==
    << [level |-> ThreatCritical, category |-> "conflict", words |->
          <<"nuclear", "missile strike", "war declared", "invasion", "airstrike kills",
            "coup", "assassination", "mass casualty", "chemical weapon", "dirty bomb",
            "martial law", "genocide">>],
       [level |-> ThreatHigh, category |-> "security", words |->
          <<"attack", "bombing", "explosion", "shooting", "killed", "hostage",
            "terrorist", "conflict", "offensive", "troops deployed", "sanctions",
            "ceasefire", "escalation", "warship", "military exercises">>],
       [level |-> ThreatHigh, category |-> "disaster", words |->
          <<"earthquake", "tsunami", "hurricane", "typhoon", "flood kills",
            "wildfire", "eruption", "catastrophic">>],
       [level |-> ThreatMedium, category |-> "politics", words |->
          <<"election", "protest", "crisis", "emergency", "shutdown",
            "impeachment", "indicted", "arrested", "detained", "expelled",
            "diplomatic", "summit", "agreement">>],
       [level |-> ThreatMedium, category |-> "economy", words |->
          <<"recession", "crash", "collapse", "default", "bankrupt",
            "inflation", "unemployment spike", "rate hike", "supply chain">>],
       [level |-> ThreatMedium, category |-> "cyber", words |->
          <<"hack", "breach", "ransomware", "cyberattack", "data leak",
            "malware", "phishing campaign", "zero-day">>],
       [level |-> ThreatLow, category |-> "general", words |->
          <<"trade deal", "policy", "reform", "budget", "statement",
            "meeting", "conference", "report">>] >>

UpperLetters == "ABCDEFGHIJKLMNOPQRSTUVWXYZ"
LowerLetters == "abcdefghijklmnopqrstuvwxyz"

\* unicode.ToLower on the letters titles are written with here.
LowerChar(c) ==
    IF \E i \in 1..Len(UpperLetters) : SubSeq(UpperLetters, i, i) = c
    THEN LET i == CHOOSE i \in 1..Len(UpperLetters) : SubSeq(UpperLetters, i, i) = c
         IN  SubSeq(LowerLetters, i, i)
    ELSE c

\* A Go string is its UTF-8 bytes. A title is written here with one symbol
\* per byte: a letter, digit or blank is a one-byte character, and LeadByte
\* followed by one more symbol is a two-byte character (a lower-case accented
\* letter).
LeadByte == "^"
\* utf8.RuneError, which strings.ToLower writes for a byte that is not UTF-8.
RuneError == "?"

\* strings.ToLower: a lead byte with nothing after it is not UTF-8.
RECURSIVE ToLower(_)
ToLower(s) ==
    IF Len(s) = 0 THEN ""
    ELSE IF SubSeq(s, 1, 1) = LeadByte
    THEN IF Len(s) = 1 THEN RuneError
         ELSE SubSeq(s, 1, 2) \o ToLower(SubSeq(s, 3, Len(s)))
    ELSE LowerChar(SubSeq(s, 1, 1)) \o ToLower(SubSeq(s, 2, Len(s)))

\* strings.Contains
Contains(s, sub) ==
    \E i \in 1..(Len(s) - Len(sub) + 1) : SubSeq(s, i, i + Len(sub) - 1) = sub

\* The inner loop of classifyThreat over tier.words, from word k on.
RECURSIVE ScanWords(_, _, _)
ScanWords(lower, words, k) ==
    IF k > Len(words) THEN FALSE
    ELSE IF Contains(lower, words[k]) THEN TRUE
    ELSE ScanWords(lower, words, k + 1)

\* The outer loop of classifyThreat over threatKeywords, from tier t on.
RECURSIVE ScanTiers(_, _)
ScanTiers(lower, t) ==
    IF t > Len(threatKeywords) THEN [level |-> ThreatInfo, category |-> "general"]
    ELSE IF ScanWords(lower, threatKeywords[t].words, 1)
    THEN [level |-> threatKeywords[t].level, category |-> threatKeywords[t].category]
    ELSE ScanTiers(lower, t + 1)

\* A classifier that compares the title as written.
classifyThreatCaseSensitive(title) == ScanTiers(title, 1)

classifyThreat(title) == ScanTiers(ToLower(title), 1)

\* ------------------------------------------------------------------ group fetches

\* defs of FetchStockIndices and of FetchCommodities: the display names.
StockDefs == <<"S&P 500", "Dow Jones">>
CommodityDefs == <<"WTI Crude Oil", "Gold", "Copper">>

Groups == {"stocks", "commodities"} \cup News

\* The sub-fetches one group starts, by index.
GroupSize(src) ==
    CASE src = "stocks" -> Len(StockDefs)
      [] src = "commodities" -> Len(CommodityDefs)
      [] OTHER -> MaxFeeds

\* What fetchYahooChart / ParseURLWithContext can return to a sub-task.
SubErrors == {"timeout", "status 500"}
SubOutcomes ==
    {[err |-> NoErr, val |-> p] : p \in 1..MaxPayload}
    \cup {[err |-> e, val |-> 0] : e \in SubErrors}

\* result{} before its goroutine has written it.
ZeroSlot == [pos |-> 0, err |-> NoErr, name |-> "", val |-> 0]

\* results[i] = result{pos: i, ...} written by sub-task i (pos counted from 1).
Slot(src, i, out) ==
    IF out.err # NoErr
    THEN [pos |-> i, err |-> out.err, name |-> "", val |-> 0]
    ELSE [pos |-> i, err |-> NoErr,
          name |-> IF src = "stocks" THEN StockDefs[i] ELSE CommodityDefs[i],
          val |-> out.val]

\* A faulty sub-task that writes the next free slot instead of its own.
SlotIndexByArrival(g, i) == Len(g.order) + 1

\* The slot sub-task i writes.
SlotIndex(g, i) == i

\* cutoff := time.Now().Add(-24 * time.Hour), in hours.
DayHours == 24
\* The prefix of a title the deduplication compares.
KeyLen == 40

\* *time.Time of an entry: nil, or a date in hours from the fetch.
NoTime == [set |-> FALSE, at |-> 0]
At(h) == [set |-> TRUE, at |-> h]

\* The titles the feeds carry: none, two that agree on their first KeyLen
\* characters up to case, one that differs from them in character KeyLen, an
\* accented letter, and a short one.
LongLow == "Officials hold talks in the capital ove^1 the budget"
LongCritical == "OFFICIALS HOLD TALKS IN THE CAPITAL OVE^1 nuclear plant"
LongOther == "Officials hold talks in the capital ove^2 the budget"
ShortLow == "Budget report"
FeedTitles == {"", LongLow, LongCritical, LongOther, ShortLow}

\* PublishedParsed / UpdatedParsed of an entry, in hours from the fetch.
FeedDates ==
    {[PublishedParsed |-> p, UpdatedParsed |-> NoTime] :
        p \in {NoTime, At(-DayHours), At(-DayHours - 1)}}
    \cup {[PublishedParsed |-> NoTime, UpdatedParsed |-> At(-1)]}

FeedEntries ==
    {[Title |-> t, PublishedParsed |-> d.PublishedParsed, UpdatedParsed |-> d.UpdatedParsed] :
        t \in FeedTitles \ {""}, d \in FeedDates}
    \cup {[Title |-> "", PublishedParsed |-> NoTime, UpdatedParsed |-> NoTime]}

RECURSIVE EntryLists(_)
EntryLists(n) ==
    IF n = 0 THEN {<<>>}
    ELSE LET shorter == EntryLists(n - 1)
         IN  shorter \cup {Append(l, e) : l \in shorter, e \in FeedEntries}

\* What fp.ParseURLWithContext can return to a feed goroutine: an error, or
\* a feed of up to n entries.
FeedOutcomes(n) ==
    {[err |-> NoErr, entries |-> l] : l \in EntryLists(n)}
    \cup {[err |-> e, entries |-> <<>>] : e \in SubErrors}

\* classifyThreat on the titles of the feeds.
Classified == [t \in FeedTitles |-> classifyThreat(t)]

\* pub of an entry read at time tnow.
PubOf(entry, tnow) ==
    IF entry.PublishedParsed.set THEN entry.PublishedParsed.at
    ELSE IF entry.UpdatedParsed.set THEN entry.UpdatedParsed.at
    ELSE tnow

\* The NewsItem appended for an entry.
NewsItem(name, entry, tnow) ==
    [Title |-> entry.Title, Source |-> name, Published |-> PubOf(entry, tnow),
     ThreatLevel |-> Classified[entry.Title].level,
     Category |-> Classified[entry.Title].category]

\* A loop that keeps the entries older than the cutoff.
KeepsEntryAnyAge(entry, tnow) == entry.Title # ""

\* The two continue statements of the loop over feed.Items.
KeepsEntry(entry, tnow) ==
    /\ entry.Title # ""
    /\ ~(PubOf(entry, tnow) < tnow - DayHours)

\* The loop over feed.Items under the mutex: items grows by the entries kept.
RECURSIVE AppendEntries(_, _, _, _)
AppendEntries(items, name, entries, tnow) ==
    IF entries = <<>> THEN items
    ELSE AppendEntries(
            IF KeepsEntry(entries[1], tnow)
            THEN Append(items, NewsItem(name, entries[1], tnow)) ELSE items,
            name, Tail(entries), tnow)

\* strings.Join(errs, "; ")
RECURSIVE Join(_)
Join(errs) ==
    IF errs = <<>> THEN ""
    ELSE IF Len(errs) = 1 THEN errs[1]
    ELSE errs[1] \o "; " \o Join(Tail(errs))

\* A faulty collection that reports the sub-errors even when some sub-fetch
\* succeeded.
CollectSlotsAnyError(results) ==
    LET good == SelectSeq(results, LAMBDA r : r.err = NoErr)
        bad == SelectSeq(results, LAMBDA r : r.err # NoErr)
        errs == [k \in 1..Len(bad) |-> bad[k].err]
    IN  IF Len(errs) > 0
        THEN [payload |-> 0, err |-> Join(errs)]
        ELSE [payload |-> [k \in 1..Len(good) |-> [Name |-> good[k].name, Price |-> good[k].val]],
              err |-> NoErr]

\* The loop over results after wg.Wait() and the return statements.
CollectSlots(results) ==
    LET good == SelectSeq(results, LAMBDA r : r.err = NoErr)
        bad == SelectSeq(results, LAMBDA r : r.err # NoErr)
        items == [k \in 1..Len(good) |-> [Name |-> good[k].name, Price |-> good[k].val]]
        errs == [k \in 1..Len(bad) |-> bad[k].err]
    IN  IF Len(items) = 0 /\ Len(errs) > 0
        THEN [payload |-> 0, err |-> Join(errs)]
        ELSE [payload |-> IF Len(items) = 0 THEN 0 ELSE items, err |-> NoErr]

\* A less function that compares the threat level only.
ItemLessByLevel(a, b) == a.ThreatLevel > b.ThreatLevel

\* The less function handed to sort.Slice.
ItemLess(a, b) ==
    IF a.ThreatLevel # b.ThreatLevel THEN a.ThreatLevel > b.ThreatLevel
    ELSE a.Published > b.Published

\* sort.Slice on a short slice: insertion sort.
RECURSIVE InsertSorted(_, _)
InsertSorted(sorted, x) ==
    IF sorted = <<>> THEN <<x>>
    ELSE IF ItemLess(x, sorted[Len(sorted)])
    THEN Append(InsertSorted(SubSeq(sorted, 1, Len(sorted) - 1), x), sorted[Len(sorted)])
    ELSE Append(sorted, x)

RECURSIVE SortItems(_)
SortItems(items) ==
    IF items = <<>> THEN <<>>
    ELSE InsertSorted(SortItems(SubSeq(items, 1, Len(items) - 1)), items[Len(items)])

\* key := strings.ToLower(item.Title[:min(40, len(item.Title))])
TitleKey(title) == ToLower(SubSeq(title, 1, minInt(KeyLen, Len(title))))

\* TitleKey on the titles of the feeds.
Keys == [t \in FeedTitles |-> TitleKey(t)]

\* The loop that keeps the first item of each title key.
RECURSIVE Dedup(_, _)
Dedup(items, seen) ==
    IF items = <<>> THEN <<>>
    ELSE IF Keys[items[1].Title] \in seen THEN Dedup(Tail(items), seen)
    ELSE <<items[1]>> \o Dedup(Tail(items), seen \cup {Keys[items[1].Title]})

\* fetchFeeds after wg.Wait(): sort, deduplicate, return deduped, nil.
fetchFeedsReturn(items) ==
    LET deduped == Dedup(SortItems(items), {})
    IN  [payload |-> IF deduped = <<>> THEN 0 ELSE deduped, err |-> NoErr]

\* A group fetch just started: every sub-task goroutine is running.
NewGroup(src, outs) ==
    [src |-> src, n |-> GroupSize(src), outs |-> outs,
     running |-> 1..GroupSize(src),
     results |-> [i \in 1..GroupSize(src) |-> ZeroSlot],
     items |-> <<>>, order |-> <<>>, pc |-> "fanout", clock |-> 0,
     ret |-> [payload |-> 0, err |-> NoErr]]

\* Sub-task i gets its answer, stores it and ends (defer wg.Done()).
SubDone(g, i) ==
    LET out == g.outs[i]
        g1 == [g EXCEPT !.running = @ \ {i}, !.order = Append(@, i)]
    IN  IF g.src \in News
        THEN IF out.err # NoErr THEN g1
             ELSE [g1 EXCEPT !.items = AppendEntries(@, i, out.entries, g.clock)]
        ELSE [g1 EXCEPT !.results[SlotIndex(g, i)] = Slot(g.src, i, out)]

SubFinish ==
    \E i \in grp.running :
        /\ grp.pc = "fanout"
        /\ grp' = SubDone(grp, i)
        /\ UNCHANGED <<dashVars, briefVars, api, pureVars>>

\* A faulty wait that lets the caller go on at once.
WaitSkipped(g) == TRUE

\* wg.Wait() returns.
WaitDone(g) == g.running = {}

\* The group function returns to its fetch command.
GroupReturn ==
    /\ grp.pc = "fanout"
    /\ WaitDone(grp)
    /\ grp' = [grp EXCEPT !.pc = "returned",
                          !.ret = IF grp.src \in News THEN fetchFeedsReturn(grp.items)
                                  ELSE CollectSlots(grp.results)]
    /\ UNCHANGED <<dashVars, briefVars, api, pureVars>>

\* The fetch command wraps what the group returned in its message and
\* bubbletea hands it to Update.
GroupDeliver ==
    LET t == fetchCmd(grp.src, 0)
        msg == [src |-> grp.src, payload |-> grp.ret.payload, err |-> grp.ret.err]
    IN  /\ grp.pc = "returned"
        /\ t \in tasks
        /\ Launch(UpdateMsg(m, cfg, msg), {t}, {}, 0)
        /\ delivered' = [delivered EXCEPT ![t.req][t.src] = @ + 1]
        /\ hist' = [hist EXCEPT ![t.src] =
                      [seen |-> TRUE, err |-> msg.err,
                       ok |-> IF msg.err = NoErr THEN msg.payload ELSE @.ok,
                       req |-> t.req]]
        /\ lastMsg' = msg
        /\ grp' = [grp EXCEPT !.pc = "delivered"]
        /\ UNCHANGED <<cfg, focus, ticks, tgen, nreq, nkeys, fs, lastSave, now, api, pureVars>>

\* ------------------------------------------------------------------ feed goroutines

\* The goroutines of fetchFeeds step by step. SubFinish takes a goroutine as
\* one step; here its parse, its lock, each append (the slice is read, then
\* written back one item longer) and its unlock are steps of their own. at[i]
\* is where goroutine i stands, mu who holds the mutex (0: nobody), next[i]
\* the entry its loop is at, loaded[i] the slice its append has read.
NewFeedGroup(src, outs) ==
    [src |-> src, n |-> GroupSize(src), outs |-> outs,
     at |-> [i \in 1..GroupSize(src) |-> "parse"],
     mu |-> 0,
     next |-> [i \in 1..GroupSize(src) |-> 1],
     loaded |-> [i \in 1..GroupSize(src) |-> <<>>],
     items |-> <<>>, pc |-> "fanout", clock |-> 0,
     ret |-> [payload |-> 0, err |-> NoErr]]

\* feed, err := fp.ParseURLWithContext(url, fetchCtx); if err != nil { return }
FeedParse ==
    \E i \in 1..grp.n :
        /\ grp.pc = "fanout" /\ grp.at[i] = "parse"
        /\ grp' = [grp EXCEPT !.at[i] = IF grp.outs[i].err # NoErr THEN "done" ELSE "lock"]
        /\ UNCHANGED <<dashVars, briefVars, api, pureVars>>

\* A mutex that lets everybody in.
MutexOpen(g) == TRUE

\* sync.Mutex: Lock returns when nobody holds it.
MutexFree(g) == g.mu = 0

\* mu.Lock()
FeedLock ==
    \E i \in 1..grp.n :
        /\ grp.pc = "fanout" /\ grp.at[i] = "lock"
        /\ MutexFree(grp)
        /\ grp' = [grp EXCEPT !.mu = i, !.at[i] = "loop"]
        /\ UNCHANGED <<dashVars, briefVars, api, pureVars>>

\* One turn of the loop over feed.Items up to the read of items by append;
\* past the last entry the goroutine returns (defer mu.Unlock()).
FeedLoad ==
    \E i \in 1..grp.n :
        /\ grp.pc = "fanout" /\ grp.at[i] = "loop"
        /\ grp' = IF grp.next[i] > Len(grp.outs[i].entries)
                  THEN [grp EXCEPT !.at[i] = "unlock"]
                  ELSE IF ~KeepsEntry(grp.outs[i].entries[grp.next[i]], grp.clock)
                  THEN [grp EXCEPT !.next[i] = @ + 1]
                  ELSE [grp EXCEPT !.loaded[i] = grp.items, !.at[i] = "store"]
        /\ UNCHANGED <<dashVars, briefVars, api, pureVars>>

\* items = append(items, NewsItem{...}): the slice read, one item longer, is
\* written back.
FeedStore ==
    \E i \in 1..grp.n :
        /\ grp.pc = "fanout" /\ grp.at[i] = "store"
        /\ grp' = [grp EXCEPT
                      !.items = Append(grp.loaded[i],
                                       NewsItem(i, grp.outs[i].entries[grp.next[i]],
                                                grp.clock)),
                      !.next[i] = @ + 1, !.at[i] = "loop"]
        /\ UNCHANGED <<dashVars, briefVars, api, pureVars>>

\* The deferred mu.Unlock() and wg.Done().
FeedUnlock ==
    \E i \in 1..grp.n :
        /\ grp.pc = "fanout" /\ grp.at[i] = "unlock"
        /\ grp' = [grp EXCEPT !.mu = 0, !.at[i] = "done"]
        /\ UNCHANGED <<dashVars, briefVars, api, pureVars>>

\* wg.Wait() returns, then sort, deduplicate and return.
FeedsReturn ==
    /\ grp.pc = "fanout"
    /\ \A i \in 1..grp.n : grp.at[i] = "done"
    /\ grp' = [grp EXCEPT !.pc = "returned", !.ret = fetchFeedsReturn(grp.items)]
    /\ UNCHANGED <<dashVars, briefVars, api, pureVars>>

\* ------------------------------------------------------------------ classifier calls

\* Headlines: up to MaxWords words separated by blanks.
HeadlineWords ==
    {"NUCLEAR", "Coupon", "Election", "hack", "Report", "calm", "Earthquake", "attack"}

RECURSIVE Headlines(_)
Headlines(n) ==
    IF n = 0 THEN {""}
    ELSE LET shorter == Headlines(n - 1)
         IN  shorter \cup {IF h = "" THEN w ELSE h \o " " \o w :
                              h \in shorter, w \in HeadlineWords}

ClassifyCalls ==
    {[fn |-> "classifyThreat", pc |-> "called", title |-> t,
      out |-> [level |-> ThreatInfo, category |-> ""]] : t \in Headlines(MaxWords)}

ClassifyReturn ==
    /\ call.fn = "classifyThreat"
    /\ call.pc = "called"
    /\ call' = [call EXCEPT !.pc = "returned", !.out = classifyThreat(call.title)]
    /\ UNCHANGED <<dashVars, briefVars, auxVars, view, setup>>

\* ------------------------------------------------------------------ synthesis response parsing

Char(s, i) == SubSeq(s, i, i)

NewLine == "\n"
IsSpace(c) == c \in {" ", "\t", "\r", NewLine}

\* strings.TrimSpace
TrimSpace(s) ==
    LET solid == {i \in 1..Len(s) : ~IsSpace(Char(s, i))}
    IN  IF solid = {} THEN ""
        ELSE SubSeq(s, CHOOSE i \in solid : \A j \in solid : i <= j,
                       CHOOSE i \in solid : \A j \in solid : i >= j)

\* strings.TrimPrefix
TrimPrefix(s, prefix) ==
    IF Len(s) >= Len(prefix) /\ SubSeq(s, 1, Len(prefix)) = prefix
    THEN SubSeq(s, Len(prefix) + 1, Len(s)) ELSE s

\* strings.SplitN(s, sep, n) for a separator of one character.
RECURSIVE SplitN(_, _, _)
SplitN(s, sep, n) ==
    LET at == {i \in 1..Len(s) : Char(s, i) = sep}
    IN  IF n = 1 \/ at = {} THEN <<s>>
        ELSE LET i == CHOOSE i \in at : \A j \in at : i <= j
             IN  <<SubSeq(s, 1, i - 1)>> \o SplitN(SubSeq(s, i + 1, Len(s)), sep, n - 1)

\* strings.Split(s, sep): no limit on the number of parts.
Split(s, sep) == SplitN(s, sep, Len(s) + 1)

Digits == "0123456789"
IsDigit(c) == \E d \in 1..Len(Digits) : Char(Digits, d) = c
DigitVal(c) == (CHOOSE d \in 1..Len(Digits) : Char(Digits, d) = c) - 1

RECURSIVE DigitsVal(_, _)
DigitsVal(s, acc) ==
    IF Len(s) = 0 THEN acc
    ELSE DigitsVal(SubSeq(s, 2, Len(s)), 10 * acc + DigitVal(Char(s, 1)))

\* strconv.Atoi on numerals that fit an int: an optional sign, then digits.
Atoi(s) ==
    LET signed == Len(s) > 0 /\ Char(s, 1) \in {"+", "-"}
        body == IF signed THEN SubSeq(s, 2, Len(s)) ELSE s
    IN  IF Len(body) = 0 \/ \E i \in 1..Len(body) : ~IsDigit(Char(body, i))
        THEN [err |-> "invalid syntax", val |-> 0]
        ELSE [err |-> NoErr,
              val |-> IF signed /\ Char(s, 1) = "-" THEN -DigitsVal(body, 0)
                      ELSE DigitsVal(body, 0)]

\* A clamp that forgets the upper limit.
clampLow(v, lo, hi) == IF v < lo THEN lo ELSE v

clamp(v, lo, hi) == IF v < lo THEN lo ELSE IF v > hi THEN hi ELSE v

\* The bullet character the THREATS loop strips, written in ASCII.
Bullet == "+"

SectionNames == {"SUMMARY", "THREATS", "COUNTRY_RISKS"}

\* The first loop of parseBriefResponse: st.current is the open section,
\* st.buf its text so far, st.sections the sections closed so far ("" while
\* a section has no entry, as a Go map reads).
RECURSIVE ScanSections(_, _)
ScanSections(lines, st) ==
    IF lines = <<>> THEN st
    ELSE LET line == lines[1]
             trimmed == TrimSpace(line)
             closed == IF st.current # ""
                       THEN [st.sections EXCEPT ![st.current] = TrimSpace(st.buf)]
                       ELSE st.sections
         IN  ScanSections(Tail(lines),
                IF trimmed \in {"SUMMARY:", "THREATS:", "COUNTRY_RISKS:"}
                THEN [current |-> SubSeq(trimmed, 1, Len(trimmed) - 1),
                      buf |-> "", sections |-> closed]
                ELSE IF st.current # ""
                THEN [st EXCEPT !.buf = @ \o line \o NewLine]
                ELSE st)

Sections(content) ==
    LET st == ScanSections(Split(content, NewLine),
                           [current |-> "", buf |-> "",
                            sections |-> [n \in SectionNames |-> ""]])
    IN  IF st.current # ""
        THEN [st.sections EXCEPT ![st.current] = TrimSpace(st.buf)]
        ELSE st.sections

\* The loop over the lines of the THREATS section.
RECURSIVE ParseThreats(_)
ParseThreats(lines) ==
    IF lines = <<>> THEN <<>>
    ELSE LET line == TrimSpace(TrimPrefix(TrimPrefix(TrimPrefix(TrimSpace(lines[1]),
                                  Bullet), "-"), "*"))
         IN  (IF line # "" THEN <<line>> ELSE <<>>) \o ParseThreats(Tail(lines))

\* A loop over the rows that gives up at the first row it cannot read.
RECURSIVE ParseRisksAborting(_)
ParseRisksAborting(lines) ==
    IF lines = <<>> THEN <<>>
    ELSE LET line == TrimSpace(lines[1])
             parts == SplitN(line, "|", 3)
         IN  IF line = "" THEN ParseRisksAborting(Tail(lines))
             ELSE IF Len(parts) < 2 THEN <<>>
             ELSE LET country == TrimSpace(parts[1])
                      score == Atoi(TrimSpace(parts[2]))
                  IN  IF score.err # NoErr \/ country = "" THEN <<>>
                      ELSE <<[Country |-> country,
                              Score |-> clamp(score.val, 0, 100),
                              Reason |-> IF Len(parts) = 3 THEN TrimSpace(parts[3]) ELSE ""]>>
                           \o ParseRisksAborting(Tail(lines))

\* The loop over the lines of the COUNTRY_RISKS section.
RECURSIVE ParseRisks(_)
ParseRisks(lines) ==
    IF lines = <<>> THEN <<>>
    ELSE LET line == TrimSpace(lines[1])
             parts == SplitN(line, "|", 3)
         IN  IF line = "" THEN ParseRisks(Tail(lines))
             ELSE IF Len(parts) < 2 THEN ParseRisks(Tail(lines))
             ELSE LET country == TrimSpace(parts[1])
                      score == Atoi(TrimSpace(parts[2]))
                  IN  IF score.err # NoErr \/ country = "" THEN ParseRisks(Tail(lines))
                      ELSE <<[Country |-> country,
                              Score |-> clamp(score.val, 0, 100),
                              Reason |-> IF Len(parts) = 3 THEN TrimSpace(parts[3]) ELSE ""]>>
                           \o ParseRisks(Tail(lines))

parseBriefResponse(content) ==
    LET sections == Sections(content)
    IN  [summary |-> sections["SUMMARY"],
         threats |-> ParseThreats(Split(sections["THREATS"], NewLine)),
         risks |-> ParseRisks(Split(sections["COUNTRY_RISKS"], NewLine))]

\* The rows a COUNTRY_RISKS section is made of: the text of the row and what
\* it says (int: the score field is there and is an integer).
RiskRows ==
    {[text |-> "France|100|unrest", country |-> "France", int |-> TRUE,
      score |-> 100, reason |-> "unrest"],
     [text |-> " Chad | 101 | civil war ", country |-> "Chad", int |-> TRUE,
      score |-> 101, reason |-> "civil war"],
     [text |-> "Peru|-1", country |-> "Peru", int |-> TRUE,
      score |-> -1, reason |-> ""],
     [text |-> "Mali|high|coup", country |-> "Mali", int |-> FALSE,
      score |-> 0, reason |-> "coup"],
     [text |-> "Oman", country |-> "Oman", int |-> FALSE,
      score |-> 0, reason |-> ""],
     [text |-> "|50|nowhere", country |-> "", int |-> TRUE,
      score |-> 50, reason |-> "nowhere"]}

RECURSIVE RowLists(_)
RowLists(n) ==
    IF n = 0 THEN {<<>>}
    ELSE LET shorter == RowLists(n - 1)
         IN  shorter \cup {Append(l, r) : l \in shorter, r \in RiskRows}

RECURSIVE RowsText(_)
RowsText(rows) ==
    IF rows = <<>> THEN "" ELSE rows[1].text \o NewLine \o RowsText(Tail(rows))

\* The sections of a response: the text and what it says.
SummaryBlocks ==
    {[has |-> FALSE, text |-> "", summary |-> ""],
     [has |-> TRUE, text |-> "SUMMARY:\nCalm day.\n", summary |-> "Calm day."],
     [has |-> TRUE, text |-> "  SUMMARY:  \n\n  Calm day.  \nMore to come.\n\n",
      summary |-> "Calm day.  \nMore to come."]}

ThreatBlocks ==
    {[has |-> FALSE, text |-> "", threats |-> <<>>],
     [has |-> TRUE, text |-> "THREATS:\n", threats |-> <<>>],
     [has |-> TRUE, text |-> "THREATS:\n- Strike in north\n* Flood\n\n+ Riot\n",
      threats |-> <<"Strike in north", "Flood", "Riot">>]}

RiskBlocks ==
    {[has |-> FALSE, text |-> "", rows |-> <<>>]}
    \cup {[has |-> TRUE, text |-> "COUNTRY_RISKS:\n" \o RowsText(rows), rows |-> rows] :
            rows \in RowLists(MaxRows)}

Preambles == {"", "Here is the brief.\n"}

ParseCalls ==
    {[fn |-> "parseBriefResponse", pc |-> "called",
      content |-> IF risksFirst THEN pre \o r.text \o s.text \o t.text
                  ELSE pre \o s.text \o t.text \o r.text,
      said |-> [summary |-> s, threats |-> t, risks |-> r],
      out |-> [summary |-> "", threats |-> <<>>, risks |-> <<>>]] :
        pre \in Preambles, s \in SummaryBlocks, t \in ThreatBlocks, r \in RiskBlocks,
        risksFirst \in BOOLEAN}

ParseReturn ==
    /\ call.fn = "parseBriefResponse"
    /\ call.pc = "called"
    /\ call' = [call EXCEPT !.pc = "returned", !.out = parseBriefResponse(call.content)]
    /\ UNCHANGED <<dashVars, briefVars, auxVars, view, setup>>

\* ------------------------------------------------------------------ navigation

\* The tabs (TabOverview = iota, TabNews, TabLocal, tabCount).
TabOverview == 0
TabNews == 1
TabLocal == 2
tabCount == 3

\* const linesPerItem = 3 of scrollNewsIntoView.
linesPerItem == 3
\* The step of the 'd' and 'u' keys.
PageStep == 10
\* renderNewsContent and renderLocalContent draw at most this many articles.
MaxDrawnGlobal == 200
MaxDrawnLocal == 100
\* if w >= 100 of renderCountryRiskPanel.
TwoColumnWidth == 100

\* viewport.Model of bubbles: the fields the dashboard reads and the number of
\* lines of its content.
NewViewport(h) == [YOffset |-> 0, Height |-> h, lines |-> 0]
maxYOffset(vp) == maxInt(0, vp.lines - vp.Height)
SetYOffset(vp, n) == [vp EXCEPT !.YOffset = minInt(maxInt(n, 0), maxYOffset(vp))]
GotoTop(vp) == [vp EXCEPT !.YOffset = 0]
GotoBottom(vp) == SetYOffset(vp, maxYOffset(vp))
SetContent(vp, n) ==
    LET vp1 == [vp EXCEPT !.lines = n]
    IN  IF vp1.YOffset > n - 1 THEN GotoBottom(vp1) ELSE vp1
LineDown(vp, n) ==
    IF vp.YOffset >= maxYOffset(vp) \/ n = 0 THEN vp ELSE SetYOffset(vp, vp.YOffset + n)
LineUp(vp, n) ==
    IF vp.YOffset <= 0 \/ n = 0 THEN vp ELSE SetYOffset(vp, vp.YOffset - n)

\* A scroll that treats an article as one line.
scrollNewsIntoViewOneLine(vp, headerLines, selectedIdx) ==
    IF selectedIdx = 0 THEN GotoTop(vp)
    ELSE IF vp.Height <= 0 THEN vp
    ELSE LET itemLine == maxInt(headerLines + selectedIdx * linesPerItem, 0)
         IN  IF itemLine < vp.YOffset THEN SetYOffset(vp, itemLine)
             ELSE IF itemLine >= vp.YOffset + vp.Height
             THEN SetYOffset(vp, itemLine - vp.Height + 1)
             ELSE vp

\* A scroll without the special case of the first article.
scrollNewsIntoViewNoTop(vp, headerLines, selectedIdx) ==
    IF vp.Height <= 0 THEN vp
    ELSE LET itemLine == maxInt(headerLines + selectedIdx * linesPerItem, 0)
             itemBottom == itemLine + linesPerItem - 1
         IN  IF itemLine < vp.YOffset THEN SetYOffset(vp, itemLine)
             ELSE IF itemBottom >= vp.YOffset + vp.Height
             THEN SetYOffset(vp, itemBottom - vp.Height + 1)
             ELSE vp

scrollNewsIntoView(vp, headerLines, selectedIdx) ==
    IF selectedIdx = 0 THEN GotoTop(vp)
    ELSE IF vp.Height <= 0 THEN vp
    ELSE LET itemLine == maxInt(headerLines + selectedIdx * linesPerItem, 0)
             itemBottom == itemLine + linesPerItem - 1
         IN  IF itemLine < vp.YOffset THEN SetYOffset(vp, itemLine)
             ELSE IF itemBottom >= vp.YOffset + vp.Height
             THEN SetYOffset(vp, itemBottom - vp.Height + 1)
             ELSE vp

\* The part of ui.Model the navigation keys work on. globalNews and localNews
\* are the lengths of the lists; errGlobal, errLocal and errWeather tell
\* whether m.errors holds an entry; risks is len(m.brief.CountryRisks), 0
\* with no brief; weather is m.weatherCond != nil and forecast is
\* len(m.forecast); viewports holds the two news panes.
NewView ==
    [activeTab |-> TabOverview, width |-> 0,
     globalNews |-> 0, localNews |-> 0,
     selectedNewsIdx |-> 0, selectedLocalNewsIdx |-> 0,
     newsHeaderLines |-> 0, localNewsHeaderLines |-> 0,
     errGlobal |-> FALSE, errLocal |-> FALSE, errWeather |-> FALSE,
     risks |-> 0, weather |-> FALSE, forecast |-> 0,
     viewports |-> [t \in {TabNews, TabLocal} |-> NewViewport(30)]]

\* A pane's content as the lines the string builder is given, each ended by
\* a newline: what the line shows and, for an article's three lines, which
\* article. No style used here adds a line (StyleSelectedRow is not part of
\* the sources and is taken to add none either).
Line(kind, i) == [kind |-> kind, item |-> i]
Text(kind) == Line(kind, -1)
Blank == Text("")

\* line1 + "\n" + line2 + "\n\n" for each article drawn.
ArticleLines(n) ==
    [k \in 1..(linesPerItem * n) |->
        Line(<<"meta", "title", "separator">>[((k - 1) % linesPerItem) + 1],
             (k - 1) \div linesPerItem)]

\* The rows of the country risk panel: two lines a country, the countries
\* side by side in pairs from TwoColumnWidth on.
CountryRows(n, w) ==
    [k \in 1..(IF w >= TwoColumnWidth THEN 2 * ((n + 1) \div 2) ELSE 2 * n) |->
        Text("risk")]

\* renderCountryRiskPanel: the panel and strings.Count(panel, "\n").
renderCountryRiskPanel(v, w) ==
    LET sb == <<Text("risk title"), Text("risk rule")>>
              \o (IF v.risks = 0 THEN <<Text("risk hint")>> ELSE CountryRows(v.risks, w))
    IN  [content |-> sb, lines |-> Len(sb)]

\* renderNewsContent: the content, whether it ends in a newline, and hdrLines.
renderNewsContent(v) ==
    IF v.globalNews = 0
    THEN [content |-> <<Text("no news")>>, closed |-> FALSE, hdr |-> 0]
    ELSE LET panel == renderCountryRiskPanel(v, v.width - 6)
         IN  [content |->
                  (IF v.errGlobal THEN <<Text("error"), Blank>> ELSE <<>>)
                  \o panel.content \o <<Blank>>
                  \o <<Text("divider"), Blank>>
                  \o <<Text("section"), Blank>>
                  \o ArticleLines(minInt(v.globalNews, MaxDrawnGlobal)),
              closed |-> TRUE,
              hdr |-> panel.lines + 7]

\* weatherBlock of renderLocalContent.
weatherBlock(v) ==
    IF v.weather
    THEN <<Text("weather"), Blank, Text("conditions"), Text("air"), Blank>>
         \o (IF v.forecast > 0
             THEN <<Text("forecast head"), Text("forecast rule")>>
                  \o [k \in 1..v.forecast |-> Text("forecast")] \o <<Blank>>
             ELSE <<>>)
    ELSE IF v.errWeather THEN <<Text("weather error")>>
    ELSE <<Text("weather spinner")>>

\* renderLocalContent: hdrLines adds up the newlines of the weather block,
\* of the LOCAL NEWS header and of what follows it.
renderLocalContent(v) ==
    LET wb == weatherBlock(v)
        top == wb \o <<Blank>> \o <<Text("local"), Blank>>
        counted == Len(wb) + 2
    IN  IF v.errLocal
        THEN [content |-> top \o <<Text("error")>>, closed |-> TRUE, hdr |-> counted + 1]
        ELSE IF v.localNews = 0
        THEN [content |-> top \o <<Text("no news")>>, closed |-> TRUE, hdr |-> counted + 1]
        ELSE [content |-> top \o <<Text("section"), Blank>>
                          \o ArticleLines(minInt(v.localNews, MaxDrawnLocal)),
              closed |-> TRUE,
              hdr |-> counted + 2]

\* The lines viewport.SetContent gets from strings.Split(content, "\n"): one
\* more than the newlines.
ContentLines(r) == Len(r.content) + (IF r.closed THEN 1 ELSE 0)

\* newsContent, hdrLines := m.renderNewsContent(); m.newsHeaderLines = hdrLines;
\* m.viewports[TabNews].SetContent(newsContent)
RefreshNews(v) ==
    LET r == renderNewsContent(v)
    IN  [v EXCEPT !.newsHeaderLines = r.hdr,
                  !.viewports[TabNews] = SetContent(@, ContentLines(r))]

RefreshLocal(v) ==
    LET r == renderLocalContent(v)
    IN  [v EXCEPT !.localNewsHeaderLines = r.hdr,
                  !.viewports[TabLocal] = SetContent(@, ContentLines(r))]

\* The selection moved on the global tab: render, then scroll.
SelectNews(v, idx) ==
    LET v1 == RefreshNews([v EXCEPT !.selectedNewsIdx = idx])
    IN  [v1 EXCEPT !.viewports[TabNews] =
            scrollNewsIntoView(@, v1.newsHeaderLines, v1.selectedNewsIdx)]

SelectLocal(v, idx) ==
    LET v1 == RefreshLocal([v EXCEPT !.selectedLocalNewsIdx = idx])
    IN  [v1 EXCEPT !.viewports[TabLocal] =
            scrollNewsIntoView(@, v1.localNewsHeaderLines, v1.selectedLocalNewsIdx)]

\* m.viewports[m.activeTab] scrolled by f; the overview pane is not part of
\* the view.
ScrollActive(v, f(_)) ==
    IF v.activeTab = TabOverview THEN v
    ELSE [v EXCEPT !.viewports[v.activeTab] = f(@)]

HalfViewDown(vp) == LineDown(vp, vp.Height \div 2)
HalfViewUp(vp) == LineUp(vp, vp.Height \div 2)
LineDownOne(vp) == LineDown(vp, 1)
LineUpOne(vp) == LineUp(vp, 1)

\* Go's %: the remainder has the sign of the dividend.
Rem(a, b) == IF a >= 0 THEN a % b ELSE -((-a) % b)

\* m.activeTab = (m.activeTab + 1) % tabCount
NextTab(t) == Rem(t + 1, tabCount)

\* A step back without the tabCount added before the remainder.
PrevTabNoWrap(t) == Rem(t - 1, tabCount)

\* m.activeTab = (m.activeTab - 1 + tabCount) % tabCount
PrevTab(t) == Rem(t - 1 + tabCount, tabCount)

NextTabKeys == {"tab", "right", "l"}
PrevTabKeys == {"shift+tab", "left", "h"}
LineKeys == {"j", "down", "k", "up"}
NavKeys == NextTabKeys \cup PrevTabKeys \cup LineKeys \cup {"1", "2", "3", "d", "u", "G", "g"}

\* case tea.KeyMsg of Update, for the keys that move between tabs and articles.
UpdateKey(v, key) ==
    CASE key \in NextTabKeys -> [v EXCEPT !.activeTab = NextTab(@)]
      [] key \in PrevTabKeys -> [v EXCEPT !.activeTab = PrevTab(@)]
      [] key = "1" -> [v EXCEPT !.activeTab = TabOverview]
      [] key = "2" -> [v EXCEPT !.activeTab = TabNews]
      [] key = "3" -> [v EXCEPT !.activeTab = TabLocal]
      [] key \in {"j", "down"} ->
            IF v.activeTab = TabNews /\ v.globalNews > 0
            THEN SelectNews(v, minInt(v.selectedNewsIdx + 1, v.globalNews - 1))
            ELSE ScrollActive(v, LineDownOne)
      [] key \in {"k", "up"} ->
            IF v.activeTab = TabNews /\ v.globalNews > 0
            THEN SelectNews(v, maxInt(v.selectedNewsIdx - 1, 0))
            ELSE ScrollActive(v, LineUpOne)
      [] key = "d" ->
            CASE v.activeTab = TabNews ->
                    SelectNews(v, minInt(v.selectedNewsIdx + PageStep,
                                         maxInt(v.globalNews - 1, 0)))
              [] v.activeTab = TabLocal ->
                    SelectLocal(v, minInt(v.selectedLocalNewsIdx + PageStep,
                                          maxInt(v.localNews - 1, 0)))
              [] OTHER -> ScrollActive(v, HalfViewDown)
      [] key = "u" ->
            CASE v.activeTab = TabNews -> SelectNews(v, maxInt(v.selectedNewsIdx - PageStep, 0))
              [] v.activeTab = TabLocal ->
                    SelectLocal(v, maxInt(v.selectedLocalNewsIdx - PageStep, 0))
              [] OTHER -> ScrollActive(v, HalfViewUp)
      [] key = "G" ->
            CASE v.activeTab = TabNews -> SelectNews(v, maxInt(v.globalNews - 1, 0))
              [] v.activeTab = TabLocal -> SelectLocal(v, maxInt(v.localNews - 1, 0))
              [] OTHER -> ScrollActive(v, GotoBottom)
      [] key = "g" ->
            IF v.activeTab = TabNews
            THEN LET v1 == RefreshNews([v EXCEPT !.selectedNewsIdx = 0])
                 IN  [v1 EXCEPT !.viewports[TabNews] = GotoTop(@)]
            ELSE ScrollActive(v, GotoTop)

\* case globalNewsMsg / localNewsMsg of Update on the view: the list is
\* replaced on success, the selection is left as it is.
UpdateNewsView(v, src, n, err) ==
    IF src = "global"
    THEN RefreshNews(IF err # NoErr THEN [v EXCEPT !.errGlobal = TRUE]
                     ELSE [v EXCEPT !.globalNews = n, !.errGlobal = FALSE])
    ELSE RefreshLocal(IF err # NoErr THEN [v EXCEPT !.errLocal = TRUE]
                      ELSE [v EXCEPT !.localNews = n, !.errLocal = FALSE])

\* case weatherMsg of Update on the view.
UpdateWeatherView(v, forecast, err) ==
    RefreshLocal(IF err # NoErr THEN [v EXCEPT !.errWeather = TRUE]
                 ELSE [v EXCEPT !.weather = TRUE, !.forecast = forecast,
                                !.errWeather = FALSE])

\* case briefMsg of Update on the view: the news pane is rendered again for
\* the country risk header.
UpdateBriefView(v, risks, err) ==
    RefreshNews(IF err # NoErr THEN v ELSE [v EXCEPT !.risks = risks])

\* case tea.WindowSizeMsg: contentH := m.height - 6 for every viewport.
UpdateWindowSize(v, w, h) ==
    [v EXCEPT !.width = w,
              !.viewports = [t \in DOMAIN @ |-> [@[t] EXCEPT !.Height = h - 6]]]

\* Terminal sizes: narrow and short, wide and tall.
WindowSizes == {<<80, 8>>, <<120, 14>>}

\* The viewports scrollNewsIntoView can be handed: SetContent leaves YOffset
\* anywhere up to the last line of the content.
Viewports ==
    {[YOffset |-> y, Height |-> h, lines |-> n] :
        y \in 0..MaxLines, h \in (-1)..MaxHeight, n \in 0..MaxLines}

ScrollCalls ==
    {[fn |-> "scrollNewsIntoView", pc |-> "called", vp |-> vp,
      headerLines |-> hd, selectedIdx |-> i, out |-> vp] :
        vp \in {w \in Viewports : w.YOffset <= maxInt(w.lines - 1, 0)},
        hd \in 0..MaxHeader, i \in 0..MaxIdx}

\* The call runs to its return; out is the viewport it leaves.
ScrollReturn ==
    /\ call.fn = "scrollNewsIntoView"
    /\ call.pc = "called"
    /\ call' = [call EXCEPT !.pc = "returned",
                            !.out = scrollNewsIntoView(call.vp, call.headerLines,
                                                       call.selectedIdx)]
    /\ UNCHANGED <<dashVars, briefVars, auxVars, view, setup>>

NavKey ==
    \E key \in NavKeys :
        /\ view' = UpdateKey(view, key)
        /\ UNCHANGED <<dashVars, briefVars, auxVars, call, setup>>

NavNews ==
    \E src \in News \cap focus, n \in 0..MaxNews, err \in {NoErr} \cup Errors :
        /\ view' = UpdateNewsView(view, src, n, err)
        /\ UNCHANGED <<dashVars, briefVars, auxVars, call, setup>>

NavWeather ==
    \E forecast \in 0..MaxForecast, err \in {NoErr} \cup Errors :
        /\ "weather" \in focus
        /\ view' = UpdateWeatherView(view, forecast, err)
        /\ UNCHANGED <<dashVars, briefVars, auxVars, call, setup>>

NavBrief ==
    \E risks \in 0..MaxRisks, err \in {NoErr} \cup Errors :
        /\ "brief" \in focus
        /\ view' = UpdateBriefView(view, risks, err)
        /\ UNCHANGED <<dashVars, briefVars, auxVars, call, setup>>

NavResize ==
    \E size \in WindowSizes :
        /\ view' = UpdateWindowSize(view, size[1], size[2])
        /\ UNCHANGED <<dashVars, briefVars, auxVars, call, setup>>

\* ------------------------------------------------------------------ configuration

\* if cfg.BriefCacheMins == 0 { cfg.BriefCacheMins = 60 }
DefaultBriefCacheMins == 60

\* config.yaml as viper reads it: the API key and brief_cache_minutes (a key
\* that is not set reads as 0).
ConfigFiles == [api_key : {"", "key"}, brief_cache_minutes : {0, CacheTTL, -1}]

\* viper.Unmarshal(&cfg)
Unmarshalled(file) ==
    [GroqAPIKey |-> file.api_key, BriefCacheMins |-> file.brief_cache_minutes]

\* config.Load: the file unmarshalled, then the defaults.
Load(file) ==
    LET c == Unmarshalled(file)
    IN  IF c.BriefCacheMins = 0
        THEN [c EXCEPT !.BriefCacheMins = DefaultBriefCacheMins]
        ELSE c

ConfigCalls ==
    {[fn |-> "config.Load", pc |-> "called", file |-> f, out |-> Unmarshalled(f)] :
        f \in ConfigFiles}

\* main: config.Load(), ui.NewModel(cfg), and the program runs Model.Init.
Main ==
    /\ call.fn = "config.Load"
    /\ call.pc = "called"
    /\ cfg' = Load(call.file)
    /\ call' = [call EXCEPT !.pc = "returned", !.out = cfg']
    /\ m' = NewModel
    /\ tasks' = doRefreshAll(0)
    /\ ticks' = 1
    /\ nreq' = 1
    /\ btasks' = {StartupLoad(cfg')}
    /\ nbrief' = 1
    /\ UNCHANGED <<focus, tgen, delivered, hist, lastMsg, nkeys, savers, fs, lastSave, now,
                   auxVars, view, setup>>

\* ------------------------------------------------------------------ first-run setup

\* Longest text the user types into an input without a CharLimit.
MaxText == 3

\* The wizard's steps (stepSelectProvider = iota, ...).
stepSelectProvider == 0
stepAPIKey == 1
stepLocation == 2
stepSaving == 3
stepDone == 4

providers == <<"groq", "openai", "deepseek", "gemini", "claude", "local">>

\* countryInput.CharLimit
CountryCharLimit == 2

\* RefreshSec written by doSave.
SetupRefreshSec == 120

NoSetup == [none |-> TRUE]

\* A textinput.Model: the runes typed, whether it has the focus, its CharLimit
\* (0: none).
TextInput(focused, limit) == [value |-> <<>>, focus |-> focused, limit |-> limit]

\* textinput.Model.Update for a key: an input without the focus ignores it.
TextUpdate(t, key) ==
    IF ~t.focus THEN t
    ELSE IF key = "runes"
         THEN IF t.limit > 0 /\ Len(t.value) >= t.limit
              THEN t
              ELSE [t EXCEPT !.value = Append(@, "x")]
    ELSE IF key = "backspace" /\ t.value # <<>>
         THEN [t EXCEPT !.value = SubSeq(@, 1, Len(@) - 1)]
    ELSE t

NewSetupModel ==
    [step |-> stepSelectProvider, selectedIdx |-> 0,
     apiKeyInput |-> TextInput(TRUE, 0),
     cityInput |-> TextInput(TRUE, 0),
     countryInput |-> TextInput(FALSE, CountryCharLimit),
     geocoding |-> FALSE, saving |-> FALSE, err |-> ""]

NoCmd == [kind |-> "none"]
QuitCmd == [kind |-> "quit"]

\* The tea.Cmd doGeocode returns: it holds the city and country of the model
\* it was made from.
doGeocode(s) ==
    [kind |-> "geocode", city |-> s.cityInput.value, country |-> s.countryInput.value]

\* The tea.Cmd doSave returns: the config.Config it will write.
doSave(s, lat, lon) ==
    [kind |-> "save",
     cfg |-> [LLMProvider |-> providers[s.selectedIdx + 1],
              LLMAPIKey |-> s.apiKeyInput.value,
              Location |-> [City |-> s.cityInput.value,
                            Country |-> s.countryInput.value,
                            Latitude |-> lat, Longitude |-> lon],
              RefreshSec |-> SetupRefreshSec,
              BriefCacheMins |-> DefaultBriefCacheMins]]

\* stepAPIKey, KeyEnter: the test that lets the wizard leave the step.
KeyEntered(s) == s.apiKeyInput.value # <<>>

LocationAny(s) == TRUE

\* stepLocation, KeyEnter: the test that starts the geocoding.
LocationEntered(s) == s.cityInput.value # <<>> /\ s.countryInput.value # <<>>

SetupKeys == {"enter", "tab", "shift+tab", "up", "down", "esc", "runes", "backspace"}

\* The switch on m.step of SetupModel.Update for a tea.KeyMsg.
SetupStepKey(s, key) ==
    CASE s.step = stepSelectProvider ->
           [m |-> IF key \in {"up", "shift+tab"}
                  THEN [s EXCEPT !.selectedIdx =
                            Rem(@ - 1 + Len(providers), Len(providers))]
                  ELSE IF key \in {"down", "tab"}
                  THEN [s EXCEPT !.selectedIdx = Rem(@ + 1, Len(providers))]
                  ELSE IF key = "enter"
                  THEN [s EXCEPT !.step = stepAPIKey]
                  ELSE s,
            cmd |-> NoCmd]
      [] s.step = stepAPIKey ->
           [m |-> IF key = "enter"
                  THEN IF KeyEntered(s) THEN [s EXCEPT !.step = stepLocation] ELSE s
                  ELSE [s EXCEPT !.apiKeyInput = TextUpdate(@, key)],
            cmd |-> NoCmd]
      [] s.step = stepLocation ->
           IF key = "enter"
           THEN IF LocationEntered(s)
                THEN [m |-> [s EXCEPT !.step = stepSaving, !.geocoding = TRUE],
                      cmd |-> doGeocode(s)]
                ELSE [m |-> s, cmd |-> NoCmd]
           ELSE IF key = "tab"
           THEN [m |-> [s EXCEPT !.cityInput.focus = FALSE,
                                 !.countryInput.focus = TRUE],
                 cmd |-> NoCmd]
           ELSE [m |-> [s EXCEPT !.cityInput = TextUpdate(@, key),
                                 !.countryInput = TextUpdate(@, key)],
                 cmd |-> NoCmd]
      [] s.step = stepSaving ->
           [m |-> IF key = "enter" /\ s.err # ""
                  THEN [s EXCEPT !.step = stepLocation, !.err = ""]
                  ELSE s,
            cmd |-> NoCmd]
      [] OTHER -> [m |-> s, cmd |-> QuitCmd]

\* SetupModel.Update for a tea.KeyMsg: any key quits at the done step, Esc
\* quits at every step.
SetupUpdateKey(s, key) ==
    LET r == SetupStepKey(s, key)
    IN  IF s.step # stepDone /\ key = "esc" THEN [m |-> r.m, cmd |-> QuitCmd] ELSE r

\* What config.Geocode can return for a city and a country code.
Geocode(city, country) ==
    {[lat |-> 38, lon |-> 9, err |-> ""],
     [lat |-> 0, lon |-> 0, err |-> "geocoding request failed"],
     [lat |-> 0, lon |-> 0, err |-> "city not found"]}

\* SetupModel.Update for a geocodeResultMsg.
SetupUpdateGeocode(s, msg) ==
    IF msg.err # ""
    THEN [m |-> [s EXCEPT !.geocoding = FALSE, !.err = msg.err], cmd |-> NoCmd]
    ELSE [m |-> [s EXCEPT !.geocoding = FALSE, !.saving = TRUE],
          cmd |-> doSave([s EXCEPT !.geocoding = FALSE, !.saving = TRUE],
                         msg.lat, msg.lon)]

\* SetupModel.Update for a saveResultMsg.
SetupUpdateSave(s, err) ==
    IF err # ""
    THEN [m |-> [s EXCEPT !.saving = FALSE, !.err = err], cmd |-> NoCmd]
    ELSE [m |-> [s EXCEPT !.saving = FALSE, !.step = stepDone], cmd |-> NoCmd]

NoConfigFile == [kind |-> "absent"]

\* main finds no config file and runs the wizard.
NewSetup ==
    [m |-> NewSetupModel, cmds |-> {}, file |-> NoConfigFile, phase |-> "setup"]

\* The program after Update returned r: a command is started, tea.Quit ends
\* the program.
AfterUpdate(st, r) ==
    [st EXCEPT !.m = r.m,
               !.cmds = IF r.cmd.kind \in {"geocode", "save"} THEN @ \cup {r.cmd} ELSE @,
               !.phase = IF r.cmd.kind = "quit" THEN "quitted" ELSE @]

\* A key press while the wizard runs.
SetupKey ==
    \E key \in SetupKeys :
        /\ setup.phase = "setup"
        /\ key = "runes" =>
               /\ setup.m.step = stepAPIKey => Len(setup.m.apiKeyInput.value) < MaxText
               /\ setup.m.step = stepLocation /\ setup.m.cityInput.focus =>
                      Len(setup.m.cityInput.value) < MaxText
        /\ setup' = AfterUpdate(setup, SetupUpdateKey(setup.m, key))
        /\ UNCHANGED <<dashVars, briefVars, auxVars, view, call>>

\* The doGeocode command returns; bubbletea hands its message to Update unless
\* the program has ended.
SetupGeocode ==
    \E c \in setup.cmds : \E msg \in Geocode(c.city, c.country) :
        /\ c.kind = "geocode"
        /\ setup.phase # "exit"
        /\ LET st == [setup EXCEPT !.cmds = @ \ {c}]
           IN  setup' = IF setup.phase = "setup"
                        THEN AfterUpdate(st, SetupUpdateGeocode(setup.m, msg))
                        ELSE st
        /\ UNCHANGED <<dashVars, briefVars, auxVars, view, call>>

\* The doSave command returns: config.Save wrote the file or failed.
SetupSave ==
    \E c \in setup.cmds : \E err \in {"", "writing config"} :
        /\ c.kind = "save"
        /\ setup.phase # "exit"
        /\ LET st == [setup EXCEPT !.cmds = @ \ {c},
                                   !.file = IF err = "" THEN c.cfg ELSE @]
           IN  setup' = IF setup.phase = "setup"
                        THEN AfterUpdate(st, SetupUpdateSave(setup.m, err))
                        ELSE st
        /\ UNCHANGED <<dashVars, briefVars, auxVars, view, call>>

\* runSetup after the wizard ended: config.Load, then the dashboard, or exit
\* status 1 when there is no config file.
SetupLoad ==
    /\ setup.phase = "quitted"
    /\ setup' = IF setup.file # NoConfigFile
                THEN [setup EXCEPT !.phase = "dashboard"]
                ELSE [setup EXCEPT !.phase = "exit", !.cmds = {}]
    /\ UNCHANGED <<dashVars, briefVars, auxVars, view, call>>

\* ------------------------------------------------------------------ specifications

\* A brief a previous run left in the cache.
OldBrief ==
    [Summary |-> "s0", KeyThreats |-> <<"t0">>, CountryRisks |-> <<>>,
     GeneratedAt |-> TimeNow(0), Model |-> "llama-3.1-8b-instant"]

InitialFiles == {Absent, Corrupt, Marshal(ToCached(OldBrief))}

\* NewModel(cfg) and Model.Init: doRefreshAll, tickEvery, loadCachedBrief
\* (the spinner is left out).
Started ==
    /\ m = NewModel
    /\ tasks = doRefreshAll(0)
    /\ ticks = 1
    /\ tgen = FALSE
    /\ nreq = 1
    /\ delivered = [r \in Requests |-> [s \in NonBrief |-> 0]]
    /\ hist = [s \in Sources |->
                 IF s = "brief"
                 THEN [seen |-> FALSE, err |-> NoErr, ok |-> NoBrief, saw |-> "none"]
                 ELSE [seen |-> FALSE, err |-> NoErr, ok |-> 0, req |-> 0]]
    /\ lastMsg = NoMsg
    /\ btasks = {StartupLoad(cfg)}
    /\ nbrief = 1
    /\ nkeys = 0
    /\ savers = {}
    /\ lastSave = NoSave
    /\ now = 0

\* The seven fetch commands in the order doRefreshAll batches them.
BatchOrder == <<"global", "local", "crypto", "stocks", "commodities", "poly", "weather">>

\* The sets of n sources explored as the ones that answer: n commands that
\* follow each other in the batch, from each starting point.
FocusSets(n) ==
    {{BatchOrder[((i + k) % Len(BatchOrder)) + 1] : k \in 0..(n - 1)}
        : i \in 0..(Len(BatchOrder) - 1)}

\* The data sources race: MaxActive of the seven answer.
Init ==
    /\ cfg \in [GroqAPIKey : {"", "key"}, BriefCacheMins : {CacheTTL}]
    /\ focus \in FocusSets(MaxActive)
    /\ fs = [cache |-> Absent, tmp |-> Absent]
    /\ api = NoApi
    /\ grp = NoGroup
    /\ view = NoView
    /\ call = NoCall
    /\ setup = NoSetup
    /\ Started

Next == Deliver \/ Tick \/ KeyR

Spec == Init /\ [][Next]_vars

\* The brief path: global news and the brief commands answer.
InitBrief ==
    /\ cfg \in [GroqAPIKey : {"", "key"}, BriefCacheMins : {0, CacheTTL}]
    /\ focus = {"global", "brief"}
    /\ fs \in [cache : InitialFiles, tmp : {Absent}]
    /\ api = NoApi
    /\ grp = NoGroup
    /\ view = NoView
    /\ call = NoCall
    /\ setup = NoSetup
    /\ Started

NextBrief ==
    \/ Deliver \/ KeyB
    \/ BriefLoad \/ BriefSkip \/ BriefGenerate \/ BriefDeliver
    \/ SaveOpen \/ SaveWrite \/ SaveRename
    \/ AdvanceTime

SpecBrief == InitBrief /\ [][NextBrief]_vars

\* Every fetch command returns (each source client has a bounded timeout)
\* and bubbletea delivers what a command returns.
Fair == \A s \in NonBrief : WF_vars(\E r \in Requests : DeliverTask(fetchCmd(s, r)))

\* As Init, with one answering source fewer and no API key.
InitLive ==
    /\ cfg = [GroqAPIKey |-> "", BriefCacheMins |-> CacheTTL]
    /\ focus \in FocusSets(MaxActive - 1)
    /\ fs = [cache |-> Absent, tmp |-> Absent]
    /\ api = NoApi
    /\ grp = NoGroup
    /\ view = NoView
    /\ call = NoCall
    /\ setup = NoSetup
    /\ Started

SpecLive == InitLive /\ [][Next]_vars /\ Fair

\* The refresh timer: tea.Tick fires after the interval and bubbletea hands
\* the tickMsg to Update.
NextTimer == Next \/ TickLate

SpecTimer == InitLive /\ [][NextTimer]_vars /\ WF_vars(Tick \/ TickLate)

\* One group fetch of the startup refresh, from fan-out to Update.
InitGroup ==
    /\ cfg = [GroqAPIKey |-> "", BriefCacheMins |-> CacheTTL]
    /\ focus = {}
    /\ fs = [cache |-> Absent, tmp |-> Absent]
    /\ api = NoApi
    /\ \E src \in Groups :
          grp \in {NewGroup(src, outs) :
                      outs \in [1..GroupSize(src) ->
                                  IF src \in News THEN FeedOutcomes(1) ELSE SubOutcomes]}
    /\ view = NoView
    /\ call = NoCall
    /\ setup = NoSetup
    /\ Started

NextGroup == SubFinish \/ GroupReturn \/ GroupDeliver

SpecGroup == InitGroup /\ [][NextGroup]_vars

\* The program from main on: the configuration file is loaded, the model is
\* built from it and the startup commands run.
InitConfig ==
    /\ cfg = [GroqAPIKey |-> "", BriefCacheMins |-> 0]
    /\ focus = {"brief"}
    /\ fs \in [cache : InitialFiles, tmp : {Absent}]
    /\ api = NoApi
    /\ grp = NoGroup
    /\ view = NoView
    /\ call \in ConfigCalls
    /\ setup = NoSetup
    /\ m = NewModel
    /\ tasks = {}
    /\ ticks = 0
    /\ tgen = FALSE
    /\ nreq = 0
    /\ delivered = [r \in Requests |-> [s \in NonBrief |-> 0]]
    /\ hist = [s \in Sources |->
                 IF s = "brief"
                 THEN [seen |-> FALSE, err |-> NoErr, ok |-> NoBrief, saw |-> "none"]
                 ELSE [seen |-> FALSE, err |-> NoErr, ok |-> 0, req |-> 0]]
    /\ lastMsg = NoMsg
    /\ btasks = {}
    /\ nbrief = 0
    /\ nkeys = 0
    /\ savers = {}
    /\ lastSave = NoSave
    /\ now = 0

\* loadCachedBrief's early return needs BriefCacheMins = 0 and is left to
\* SpecBrief, which starts from any configuration.
NextConfig ==
    \/ Main \/ KeyB
    \/ BriefLoad \/ BriefGenerate \/ BriefDeliver
    \/ SaveOpen \/ SaveWrite \/ SaveRename
    \/ AdvanceTime

SpecConfig == InitConfig /\ [][NextConfig]_vars

\* parseBriefResponse called once on every response.
InitParse ==
    /\ cfg = [GroqAPIKey |-> "", BriefCacheMins |-> CacheTTL]
    /\ focus = {}
    /\ fs = [cache |-> Absent, tmp |-> Absent]
    /\ api = NoApi
    /\ grp = NoGroup
    /\ view = NoView
    /\ call \in ParseCalls
    /\ setup = NoSetup
    /\ Started

SpecParse == InitParse /\ [][ParseReturn]_vars

\* classifyThreat called once on every headline.
InitClassify ==
    /\ cfg = [GroqAPIKey |-> "", BriefCacheMins |-> CacheTTL]
    /\ focus = {}
    /\ fs = [cache |-> Absent, tmp |-> Absent]
    /\ api = NoApi
    /\ grp = NoGroup
    /\ view = NoView
    /\ call \in ClassifyCalls
    /\ setup = NoSetup
    /\ Started

SpecClassify == InitClassify /\ [][ClassifyReturn]_vars

\* scrollNewsIntoView called once on every viewport and selection.
InitScroll ==
    /\ cfg = [GroqAPIKey |-> "", BriefCacheMins |-> CacheTTL]
    /\ focus = {}
    /\ fs = [cache |-> Absent, tmp |-> Absent]
    /\ api = NoApi
    /\ grp = NoGroup
    /\ view = NoView
    /\ call \in ScrollCalls
    /\ setup = NoSetup
    /\ Started

SpecScroll == InitScroll /\ [][ScrollReturn]_vars

\* The sources whose results reach the view: those drawn on the Global News
\* pane, or those drawn on the Local pane.
NavFocus == {{"global", "brief"}, {"local", "weather"}}

\* The navigation keys and the results drawn on the news panes.
InitNav ==
    /\ cfg = [GroqAPIKey |-> "", BriefCacheMins |-> CacheTTL]
    /\ focus \in NavFocus
    /\ fs = [cache |-> Absent, tmp |-> Absent]
    /\ api = NoApi
    /\ grp = NoGroup
    /\ view = NewView
    /\ call = NoCall
    /\ setup = NoSetup
    /\ Started

NextNav == NavKey \/ NavNews \/ NavWeather \/ NavBrief \/ NavResize

SpecNav == InitNav /\ [][NextNav]_vars

\* One news fetch over feeds of up to MaxEntries entries.
InitFeeds ==
    /\ cfg = [GroqAPIKey |-> "", BriefCacheMins |-> CacheTTL]
    /\ focus = {}
    /\ fs = [cache |-> Absent, tmp |-> Absent]
    /\ api = NoApi
    /\ grp \in {NewGroup("global", outs) : outs \in [1..MaxFeeds -> FeedOutcomes(MaxEntries)]}
    /\ view = NoView
    /\ call = NoCall
    /\ setup = NoSetup
    /\ Started

SpecFeeds == InitFeeds /\ [][NextGroup]_vars

\* One news fetch, goroutine step by goroutine step, over feeds that fail or
\* carry up to MaxEntries entries, dated or not, with or without a title.
InitMutex ==
    /\ cfg = [GroqAPIKey |-> "", BriefCacheMins |-> CacheTTL]
    /\ focus = {}
    /\ fs = [cache |-> Absent, tmp |-> Absent]
    /\ api = NoApi
    /\ grp \in {NewFeedGroup("global", outs) :
                   outs \in [1..MaxFeeds ->
                               {o \in FeedOutcomes(MaxEntries) :
                                   \A k \in 1..Len(o.entries) :
                                       o.entries[k].Title \in {"", ShortLow}}]}
    /\ view = NoView
    /\ call = NoCall
    /\ setup = NoSetup
    /\ Started

NextMutex == FeedParse \/ FeedLock \/ FeedLoad \/ FeedStore \/ FeedUnlock \/ FeedsReturn

SpecMutex == InitMutex /\ [][NextMutex]_vars

\* The first run: main found no config file and started the wizard.
InitSetup ==
    /\ cfg = [GroqAPIKey |-> "", BriefCacheMins |-> CacheTTL]
    /\ focus = {}
    /\ fs = [cache |-> Absent, tmp |-> Absent]
    /\ api = NoApi
    /\ grp = NoGroup
    /\ view = NoView
    /\ call = NoCall
    /\ setup = NewSetup
    /\ Started

NextSetup == SetupKey \/ SetupGeocode \/ SetupSave \/ SetupLoad

SpecSetup == InitSetup /\ [][NextSetup]_vars

\* The cache functions called directly, one call at a time.
InitCache ==
    /\ cfg = [GroqAPIKey |-> "", BriefCacheMins |-> CacheTTL]
    /\ focus = {}
    /\ fs \in [cache : InitialFiles, tmp : {Absent}]
    /\ api = [pc |-> "idle", op |-> "none", b |-> NoBrief, ok |-> FALSE,
              maxAge |-> 0, at |-> 0, io |-> "ok",
              res |-> [brief |-> NoBrief, err |-> NoErr], prev |-> NoBrief,
              before |-> Absent]
    /\ grp = NoGroup
    /\ view = NoView
    /\ call = NoCall
    /\ setup = NoSetup
    /\ Started

NextCache ==
    \/ ApiSave \/ ApiSaveReturn \/ ApiLoad \/ ApiClear
    \/ SaveOpen \/ SaveWrite \/ SaveRename
    \/ AdvanceTime

SpecCache == InitCache /\ [][NextCache]_vars

\* ------------------------------------------------------------------ claims

\* What Update holds for a source: its payload and its error entry.
Stored(mm, s) == IF s = "brief" THEN mm.brief ELSE mm.data[s]
Slice(mm, s) == [data |-> Stored(mm, s), err |-> mm.errors[s]]

\* Every message Update can be handed in the current state.
AllMsgs ==
    UNION {FetchOutcomes(t.src) : t \in {x \in tasks : x.src \in focus}}
    \cup {t.msg : t \in {x \in btasks : x.pc = "ready" /\ "brief" \in focus}}

\* C1: after any interleaving of result messages, each source's error entry
\* is that of the last message processed for it (absent when that message
\* carried none), its stored data is the payload of its last error-free
\* message (the initial nil when there was none), the source of the message
\* processed last is not pending, and processing any message a second time
\* right after the first changes nothing.
C1_LastMessagePerSource ==
    /\ \A s \in Sources :
          /\ m.errors[s] = (IF hist[s].seen THEN hist[s].err ELSE NoErr)
          /\ Stored(m, s) = hist[s].ok
    /\ lastMsg # NoMsg => lastMsg.src \notin m.loading
    /\ \A msg \in AllMsgs :
          LET once == UpdateMsg(m, cfg, msg).m
          IN  UpdateMsg(once, cfg, msg).m = once

\* Scenario A with a replacement: three sources have answered, two of them
\* hold data without an error and one holds a timeout, one of them has
\* answered twice, and none of the three is pending.
C1_Witness ==
    /\ \A s \in focus : hist[s].seen /\ s \notin m.loading
    /\ Cardinality({s \in focus : m.errors[s] = NoErr /\ m.data[s] # 0}) = 2
    /\ Cardinality({s \in focus : m.errors[s] = "timeout"}) = 1
    /\ \E s \in focus : delivered[0][s] = 1 /\ delivered[1][s] = 1
                        /\ m.errors[s] = NoErr /\ m.data[s] = 2

\* C2: whatever result message Update is handed in a reachable state, the
\* stored data and the error entry of every source other than the message's
\* own are the same after as before.
C2_OtherSourcesUntouched ==
    \A msg \in AllMsgs : \A s \in Sources \ {msg.src} :
        Slice(UpdateMsg(m, cfg, msg).m, s) = Slice(m, s)

\* A failure has just been processed for one source while another source
\* still holds the data it loaded before.
C2_Witness ==
    /\ lastMsg # NoMsg
    /\ lastMsg.err # NoErr
    /\ \E s \in NonBrief \ {lastMsg.src} :
          hist[s].seen /\ m.data[s] # 0 /\ m.errors[s] = NoErr

\* The fetch commands of request r for source s still in flight.
InFlight(r, s) == {t \in tasks : t.src = s /\ t.req = r}

\* C3 (safety half): for every refresh request issued and every one of the
\* seven sources, the messages delivered plus the commands still in flight
\* number exactly one; nothing exists for a request not yet issued.
C3_OneEach ==
    \A r \in Requests : \A s \in NonBrief :
        Cardinality(InFlight(r, s)) + delivered[r][s] = (IF r < nreq THEN 1 ELSE 0)

\* C3: each refresh request (startup, tick, 'r') leads to exactly one result
\* message per source: never two (C3_OneEach), and for every source that
\* answers the message is eventually delivered.
C3_ExactlyOnePerRequest ==
    /\ []C3_OneEach
    /\ \A r \in Requests : \A s \in NonBrief :
          (r < nreq /\ s \in focus) ~> (delivered[r][s] = 1)

\* Both the startup request and a later one have delivered for every
\* answering source, with failures among the results.
C3_Witness ==
    /\ nreq = 2
    /\ \A s \in focus : delivered[0][s] = 1 /\ delivered[1][s] = 1
    /\ \E s \in focus : m.errors[s] # NoErr

\* C4: no LoadCachedBrief call started by the dashboard ever reads a file
\* that is truncated or overwritten in part, however the SaveCachedBrief
\* goroutines overlap.
C4_NeverPartialRead ==
    \A t \in btasks :
        t.load # NoLoad => t.load.file.kind \notin {"empty", "garbled"}

\* The record a load read was decodable and no older than maxAge.
Fresh(l, maxAge) ==
    /\ l.file.kind = "json"
    /\ l.at - l.file.cb.generated_at <= maxAge

\* C5: a non-forced brief request with the cache enabled reads the cache
\* first; when the record it read is decodable and within the TTL its
\* message is that record, marked fromCache, and GenerateBrief is not called;
\* GenerateBrief is called only when the load gave nothing (no file, an
\* unreadable or undecodable file, an expired record).
C5_FreshCacheSkipsSynthesis ==
    \A t \in btasks :
        (t.kind = "fetch" /\ ~t.force /\ t.cacheMins > 0 /\ t.pc # "start") =>
            /\ t.load # NoLoad
            /\ IF Fresh(t.load, t.cacheMins)
               THEN /\ t.pc = "ready"
                    /\ ~t.synth
                    /\ t.msg = [src |-> "brief", brief |-> FromCached(t.load.file.cb),
                                err |-> NoErr, fromCache |-> TRUE]
               ELSE t.pc = "ready" => (t.synth /\ ~t.msg.fromCache)

\* A non-forced request has answered from a fresh cached record.
C5_Witness ==
    \E t \in btasks :
        /\ t.kind = "fetch" /\ ~t.force /\ t.cacheMins > 0
        /\ t.pc = "ready" /\ t.msg.fromCache /\ ~t.synth

\* Equality of two briefs, field by field (timestamps as instants).
BriefEqual(a, b) ==
    /\ a.Summary = b.Summary
    /\ a.KeyThreats = b.KeyThreats
    /\ a.CountryRisks = b.CountryRisks
    /\ TimeEqual(a.GeneratedAt, b.GeneratedAt)
    /\ a.Model = b.Model

\* C6: a LoadCachedBrief(maxAge > 0) that follows a completed
\* SaveCachedBrief(b), with the file system answering, returns a brief equal
\* to b in all five fields while b is no older than maxAge, and returns
\* (nil, nil) once b is older.
C6_SaveLoadRoundTrip ==
    (api.op = "load" /\ api.prev # NoBrief /\ api.io = "ok" /\ api.maxAge > 0) =>
        IF api.at - api.prev.GeneratedAt.wall > api.maxAge
        THEN api.res = [brief |-> NoBrief, err |-> NoErr]
        ELSE /\ api.res.err = NoErr
             /\ api.res.brief # NoBrief
             /\ BriefEqual(api.res.brief, api.prev)

\* A brief fresh from GenerateBrief was saved and the load after it returned
\* a brief.
C6_Witness ==
    /\ api.op = "load" /\ api.prev # NoBrief /\ api.io = "ok" /\ api.maxAge > 0
    /\ api.prev.GeneratedAt.mono
    /\ api.res.brief # NoBrief

\* What a load with the TTL as maxAge returns now.
LoadNow == LoadCachedBrief(fs, CacheTTL, now, "ok")

C7_MissSynthesizes ==
    \A t \in btasks :
        (t.kind = "fetch" /\ t.load # NoLoad /\ t.load.file.kind = "absent") =>
            /\ t.pc \in {"miss", "ready"}
            /\ t.pc = "ready" => (t.synth /\ ~t.msg.fromCache)

\* After a save's rename that no other save overlapped, the cache returns
\* the saved brief while it is within the TTL.
C7_SavedOnceRenamed ==
    (lastSave # NoSave /\ lastSave.alone
        /\ now - lastSave.b.GeneratedAt.wall <= CacheTTL) =>
        (LoadNow.brief # NoBrief /\ BriefEqual(LoadNow.brief, lastSave.b))

\* Processing a successful, not cached, brief result starts a save of it.
C7_ProcessingStartsSave ==
    \A t \in btasks \ btasks' :
        (t.pc = "ready" /\ t.msg.err = NoErr /\ ~t.msg.fromCache) =>
            \E s \in savers' \ savers : s.b = t.msg.brief /\ s.pc = "start"

C8_MaxAgeZeroLoadsNothing ==
    (api.op = "load" /\ api.maxAge = 0) => api.res.brief = NoBrief

\* The errors a brief message can carry, all from GenerateBrief.
SynthesisErrors == {r.err : r \in Responses} \ {NoErr}

\* C9: LoadCachedBrief returns (nil, nil) for a missing file and for an
\* undecodable one alike; a brief request that read either goes on to
\* GenerateBrief, and the only errors ever recorded for the brief are
\* GenerateBrief's.
C9_MissingAndCorruptAreMisses ==
    /\ \A a \in MaxAges : \A at \in 0..MaxTime :
          \A f \in {Absent, Corrupt, EmptyFile} :
              LoadCachedBrief([cache |-> f, tmp |-> Absent], a, at, "ok")
                  = [brief |-> NoBrief, err |-> NoErr]
    /\ \A t \in btasks :
          (t.load # NoLoad /\ t.load.file.kind \in {"absent", "corrupt", "empty", "garbled"}) =>
              /\ t.load.err = NoErr
              /\ t.pc \in {"miss", "ready", "done"}
              /\ t.pc = "ready" =>
                    (t.synth /\ ~t.msg.fromCache /\ t.msg.err \in SynthesisErrors \cup {NoErr})
    /\ m.errors["brief"] \in SynthesisErrors \cup {NoErr}

\* A request read an undecodable file and went on to a successful synthesis,
\* whose result Update then stored without an error.
C9_Witness ==
    /\ hist["brief"].saw = "corrupt"
    /\ hist["brief"].err = NoErr
    /\ m.brief # NoBrief /\ m.brief = hist["brief"].ok
    /\ m.brief.GeneratedAt.mono

\* C10: the 'B' key starts a forced request, and a forced request never
\* calls LoadCachedBrief: its message always comes from GenerateBrief.
C10_ForceBypassesCache ==
    /\ \A c \in UpdateKeyB(m, cfg, TRUE).cmds : c.force
    /\ \A t \in btasks :
          t.force =>
              /\ t.load = NoLoad
              /\ t.pc \in {"start", "ready"}
              /\ t.pc = "ready" => (t.synth /\ ~t.msg.fromCache)

\* A forced request has synthesized although the cache holds a record that
\* a load would return.
C10_Witness ==
    /\ \E t \in btasks : t.force /\ t.pc = "ready" /\ t.synth /\ t.cacheMins > 0
    /\ LoadNow.brief # NoBrief

\* C11: SaveCachedBrief has no result and so reports no failure; when a call
\* has returned without its rename succeeding (nil brief, no cache path,
\* encoding or temp-file write failed, rename failed), brief.json is what it
\* was when the call started.
C11_FailedSaveKeepsRecord ==
    (api.op = "save" /\ api.pc = "idle") =>
        /\ api.res.err = NoErr
        /\ ~api.ok => fs.cache = api.before

\* A save of a brief got as far as truncating the temp file, failed, and
\* returned, with a decodable record cached before the call.
C11_Witness ==
    /\ api.op = "save" /\ api.pc = "idle" /\ ~api.ok
    /\ api.b # NoBrief
    /\ api.before.kind = "json"
    /\ fs.tmp.kind = "empty"
    /\ fs.cache = api.before

\* What the tickMsg case and the 'r' case return in the current state.
C12_Handlers ==
    /\ ticks = 1
    /\ Cardinality(TickCmds(UpdateTick(m, nreq).cmds)) = 1
    /\ Fetches(UpdateTick(m, nreq).cmds) = doRefreshAll(nreq)
    /\ {c.src : c \in doRefreshAll(nreq)} = NonBrief
    /\ Cardinality(doRefreshAll(nreq)) = Cardinality(NonBrief)
    /\ TickCmds(UpdateKeyR(m, nreq).cmds) = {}

\* A step that replaces the timer is a tick: it leaves one timer and starts
\* the seven fetches of a new request and nothing else.
C12_TickStep ==
    (tgen' # tgen) =>
        /\ ticks' = 1
        /\ btasks' = btasks
        /\ nreq <= MaxRefresh => (tasks' \ tasks = doRefreshAll(nreq) /\ tasks \subseteq tasks')

\* Every other step, a manual refresh included, leaves the pending timer.
C12_OtherStep == (tgen' = tgen) => ticks' = ticks

\* C12: exactly one refresh tick is scheduled in every reachable state; a
\* tick starts the seven non-brief fetches and schedules exactly one next
\* tick; a manual refresh returns no timer command and leaves the pending
\* timer as it is; ticks fire again and again.
C12_OneTickForever ==
    /\ []C12_Handlers
    /\ [][C12_TickStep /\ C12_OtherStep]_vars
    /\ []<><<tgen' # tgen>>_vars

\* A tick has fired since startup, the seven fetches of the request after
\* the startup one are started and one has answered, and one timer is pending.
C12_Witness ==
    /\ tgen /\ nreq > MaxRefresh /\ ticks = 1
    /\ \A s \in NonBrief : Cardinality(InFlight(MaxRefresh, s)) + delivered[MaxRefresh][s] = 1
    /\ \E s \in focus : delivered[MaxRefresh][s] = 1

\* C13 as claimed: a step that issues a request without a tick (the 'r' key)
\* puts every non-brief source in the loading set and starts one fetch for
\* each of them.
C13_ManualRefreshMarksPending ==
    [][(nreq' = nreq + 1 /\ tgen' = tgen) =>
          (NonBrief \subseteq m'.loading /\ tasks' \ tasks = doRefreshAll(nreq))]_vars

\* Every value a globalNewsMsg can have, failed ones included.
GlobalNewsMsgs ==
    {[src |-> "global", payload |-> p, err |-> NoErr] : p \in Payloads}
    \cup {[src |-> "global", payload |-> 0, err |-> e] : e \in Errors}

\* The fetchBrief commands among the commands Update returns.
BriefCmds(cmds) == {c \in cmds : c.kind = "brief"}

\* C14: Update returns a fetchBrief command on its own exactly for a
\* globalNewsMsg without error processed while no brief is held and an API
\* key is configured: one non-forced request on the items just received. No
\* other result message and no tick returns one.
C14_AutoBriefRequest ==
    /\ \A msg \in AllMsgs \cup GlobalNewsMsgs :
          LET u == UpdateMsg(m, cfg, msg)
          IN  IF msg.src = "global" /\ msg.err = NoErr
                 /\ m.brief = NoBrief /\ cfg.GroqAPIKey # ""
              THEN /\ BriefCmds(u.cmds) =
                        {fetchBriefCmd(cfg.GroqAPIKey, msg.payload, cfg.BriefCacheMins, FALSE)}
                   /\ "brief" \in u.m.loading
              ELSE BriefCmds(u.cmds) = {}
    /\ BriefCmds(UpdateTick(m, nreq).cmds) = {}
    /\ BriefCmds(UpdateKeyR(m, nreq).cmds) = {}

\* The global news have arrived, no key was pressed, and the brief request
\* that Update issued on its own is in flight.
C14_Witness ==
    /\ hist["global"].seen /\ hist["global"].err = NoErr
    /\ nkeys = 0
    /\ "brief" \in m.loading
    /\ \E t \in btasks :
          /\ t.kind = "fetch" /\ ~t.force
          /\ t.items = m.data["global"]

\* C15 as claimed: no source is in the loading set and in the error map at
\* the same time.
C15_OneStatePerSource ==
    \A s \in Sources : ~(s \in m.loading /\ m.errors[s] # NoErr)

\* C16 as claimed: once every fetch of a source has delivered, the source
\* holds the result of the most recent request.
C16_HoldsMostRecentCycle ==
    \A s \in focus :
        (\A r \in Requests : r < nreq /\ InFlight(r, s) = {} /\ delivered[r][s] = 1) =>
            /\ hist[s].req = nreq - 1
            /\ Slice(m, s) = [data |-> hist[s].ok, err |-> hist[s].err]

\* C17 as claimed: after a brief request has failed while a brief is held,
\* the held brief is still in state and the brief panel still draws it,
\* together with the failure.
C17_FailedBriefStaysDisplayed ==
    (lastMsg # NoMsg /\ lastMsg.src = "brief" /\ lastMsg.err # NoErr
        /\ hist["brief"].ok # NoBrief /\ cfg.GroqAPIKey # "") =>
        /\ m.brief = hist["brief"].ok
        /\ renderBriefPanel(m, cfg).brief = m.brief
        /\ renderBriefPanel(m, cfg).err = lastMsg.err

\* The sub-fetches of the group that succeeded, in definition order.
Succeeded(g) == SelectSeq([i \in 1..g.n |-> i], LAMBDA i : g.outs[i].err = NoErr)
Failed(g) == SelectSeq([i \in 1..g.n |-> i], LAMBDA i : g.outs[i].err # NoErr)
DefName(g, i) == IF g.src = "stocks" THEN StockDefs[i] ELSE CommodityDefs[i]

\* C18: a stock or commodity group whose sub-fetches all failed returns no
\* items and the sub-errors joined; one with a successful sub-fetch returns
\* a nil error and exactly the successful items, nothing of the failed ones.
C18_GroupPartialSuccess ==
    (grp.pc \in {"returned", "delivered"} /\ grp.src \in {"stocks", "commodities"}) =>
        LET ok == Succeeded(grp)
            ko == Failed(grp)
        IN  IF Len(ok) = 0
            THEN /\ grp.ret.payload = 0
                 /\ grp.ret.err = Join([k \in 1..Len(ko) |-> grp.outs[ko[k]].err])
            ELSE /\ grp.ret.err = NoErr
                 /\ Len(grp.ret.payload) = Len(ok)
                 /\ {grp.ret.payload[k] : k \in 1..Len(ok)}
                       = {[Name |-> DefName(grp, ok[k]), Price |-> grp.outs[ok[k]].val]
                            : k \in 1..Len(ok)}

\* A commodity fetch has returned with some of its sub-fetches failed and
\* some not.
C18_Witness ==
    /\ grp.pc = "returned" /\ grp.src = "commodities"
    /\ Len(Succeeded(grp)) = 2 /\ Len(Failed(grp)) = 1
    /\ grp.ret.err = NoErr

\* A sub-task writes its own slot only.
C19_OwnSlotOnly ==
    (grp.pc = "fanout" /\ grp'.pc = "fanout") =>
        \A j \in 1..grp.n :
            grp'.results[j] # grp.results[j] => (j \in grp.running /\ j \notin grp'.running)

\* The slots are read once every sub-task has ended, and give the
\* successful items in definition order.
C19_SlotOrder ==
    (grp.pc \in {"returned", "delivered"} /\ grp.src \in {"stocks", "commodities"}) =>
        /\ grp.running = {}
        /\ LET ok == Succeeded(grp)
           IN  Len(ok) > 0 =>
                  grp.ret.payload =
                      [k \in 1..Len(ok) |->
                          [Name |-> DefName(grp, ok[k]), Price |-> grp.outs[ok[k]].val]]

\* C19: whatever the order in which the sub-fetches of a stock or commodity
\* group finish, each writes only its own slot, the slots are read after
\* all have finished, and the items returned are in definition order.
C19_DefinitionOrder == []C19_SlotOrder /\ [][C19_OwnSlotOnly]_vars

\* A commodity fetch whose sub-fetches all succeeded and finished last to
\* first has returned.
C19_Witness ==
    /\ grp.pc = "returned" /\ grp.src = "commodities"
    /\ grp.order = <<3, 2, 1>>
    /\ Len(Succeeded(grp)) = 3
    /\ grp.ret.payload[1].Name = CommodityDefs[1]

\* C20 as claimed: a group fetch in which every request failed delivers a
\* message with an error and Update sets the source's error entry.
C20_AllFailedIsFailed ==
    (grp.pc = "delivered" /\ Len(Succeeded(grp)) = 0) =>
        /\ lastMsg.err # NoErr
        /\ m.errors[grp.src] # NoErr

\* C21: in every reachable state the selected index of the global-news tab and
\* of the local-news tab is within [0, itemCount - 1] whenever the list is
\* not empty.
C21_SelectionInRange ==
    /\ view.globalNews > 0 => view.selectedNewsIdx \in 0..(view.globalNews - 1)
    /\ view.localNews > 0 => view.selectedLocalNewsIdx \in 0..(view.localNews - 1)

\* The three lines of the selected article and the window of a viewport.
SpanTop(c) == c.headerLines + linesPerItem * c.selectedIdx
SpanBottom(c) == SpanTop(c) + linesPerItem - 1
SpanVisible(c, vp) ==
    /\ SpanTop(c) >= vp.YOffset
    /\ SpanBottom(c) < vp.YOffset + vp.Height

\* C22 as stated: after scrollNewsIntoView for a selected index other than 0
\* the article's three lines lie within [offset, offset + height), and the
\* offset is unchanged when they were already visible.
C22_SpanVisibleAfterScroll ==
    (call.pc = "returned" /\ call.selectedIdx # 0) =>
        /\ SpanVisible(call, call.out)
        /\ SpanVisible(call, call.vp) => call.out.YOffset = call.vp.YOffset

\* C22 amended: the same for a viewport at least one article high whose
\* content holds the article's three lines.
C22_SpanVisibleWhenItFits ==
    (/\ call.pc = "returned" /\ call.selectedIdx # 0
     /\ call.vp.Height >= linesPerItem
     /\ SpanBottom(call) <= call.vp.lines - 1) =>
        /\ SpanVisible(call, call.out)
        /\ SpanVisible(call, call.vp) => call.out.YOffset = call.vp.YOffset

C22_Witness ==
    /\ call.pc = "returned" /\ call.selectedIdx = 2
    /\ call.vp.Height = linesPerItem + 1
    /\ SpanBottom(call) <= call.vp.lines - 1
    /\ call.vp.YOffset = 0
    /\ call.out.YOffset = SpanBottom(call) - call.vp.Height + 1
    /\ call.out.YOffset > 0

\* C23: scrollNewsIntoView with selected index 0 leaves the offset at 0
\* whatever the prior offset, the header line count and the height.
C23_FirstItemGoesToTop ==
    (call.pc = "returned" /\ call.selectedIdx = 0) => call.out.YOffset = 0

C23_Witness ==
    /\ call.pc = "returned" /\ call.selectedIdx = 0
    /\ call.vp.YOffset > call.headerLines /\ call.headerLines > 0
    /\ call.vp.Height <= 0
    /\ call.out.YOffset = 0

\* Two characters that are the same letter whatever their case.
SameLetter(a, b) ==
    \/ a = b
    \/ \E i \in 1..Len(UpperLetters) :
          {a, b} = {SubSeq(UpperLetters, i, i), SubSeq(LowerLetters, i, i)}

\* kw occurs in title as a substring, case ignored.
OccursIn(kw, title) ==
    \E i \in 1..(Len(title) - Len(kw) + 1) :
        \A j \in 1..Len(kw) :
            SameLetter(SubSeq(title, i + j - 1, i + j - 1), SubSeq(kw, j, j))

\* The table entries with a keyword occurring in the title.
MatchingTiers(title) ==
    {t \in 1..Len(threatKeywords) :
        \E k \in 1..Len(threatKeywords[t].words) : OccursIn(threatKeywords[t].words[k], title)}

TierLevels(title, level) == \E t \in MatchingTiers(title) : threatKeywords[t].level = level

\* C24: classifyThreat returns the level and category of the first table entry
\* with a keyword occurring in the title (case ignored), (Info, general) when
\* none does; a title with a critical and a medium keyword is critical.
C24_FirstMatchingTier ==
    call.pc = "returned" =>
        LET hit == MatchingTiers(call.title)
        IN  /\ hit = {} => call.out = [level |-> ThreatInfo, category |-> "general"]
            /\ hit # {} =>
                  LET first == CHOOSE t \in hit : \A u \in hit : t <= u
                  IN  call.out = [level |-> threatKeywords[first].level,
                                  category |-> threatKeywords[first].category]
            /\ (TierLevels(call.title, ThreatCritical) /\ TierLevels(call.title, ThreatMedium))
                  => call.out.level = ThreatCritical

C24_Witness ==
    /\ call.pc = "returned"
    /\ call.title = "Election NUCLEAR"
    /\ call.out = [level |-> ThreatCritical, category |-> "conflict"]

\* The characters of a title, up to n of them.
RECURSIVE Chars(_, _)
Chars(s, n) ==
    IF Len(s) = 0 \/ n = 0 THEN <<>>
    ELSE IF SubSeq(s, 1, 1) = LeadByte /\ Len(s) > 1
    THEN <<SubSeq(s, 1, 2)>> \o Chars(SubSeq(s, 3, Len(s)), n - 1)
    ELSE <<SubSeq(s, 1, 1)>> \o Chars(SubSeq(s, 2, Len(s)), n - 1)

\* The first KeyLen characters of two titles agree up to case.
SamePrefix ==
    [a \in FeedTitles, b \in FeedTitles |->
        LET ca == Chars(a, KeyLen)
            cb == Chars(b, KeyLen)
        IN  /\ Len(ca) = Len(cb)
            /\ \A j \in 1..Len(ca) : SameLetter(ca[j], cb[j])]

\* The list a news fetch returned, and the sorted list it was taken from.
Returned(g) == IF g.items = <<>> THEN <<>> ELSE g.ret.payload
Sorted(g) == SortItems(g.items)

\* The positions of a list holding the first item of their prefix.
FirstOfPrefix(l) ==
    SelectSeq([j \in 1..Len(l) |-> j],
              LAMBDA j : \A i \in 1..(j - 1) : ~SamePrefix[l[i].Title, l[j].Title])

\* C25: the list returned by a feed fetch holds no two items with the same
\* lowercased 40-character title prefix; of the items sharing a prefix it
\* keeps the first of the sorted list, and it keeps the sorted order.
C25_FirstOfEachPrefix ==
    (grp.pc \in {"returned", "delivered"} /\ grp.src \in News) =>
        LET out == Returned(grp)
            first == FirstOfPrefix(Sorted(grp))
        IN  /\ \A i, j \in 1..Len(out) :
                  i # j => ~SamePrefix[out[i].Title, out[j].Title]
            /\ out = [k \in 1..Len(first) |-> Sorted(grp)[first[k]]]

\* C26: the list returned by a feed fetch is ordered by severity tier, the
\* highest first, and within a tier by publish time, the most recent first,
\* whatever the order in which the feed tasks completed.
C26_SeverityThenRecency ==
    (grp.pc \in {"returned", "delivered"} /\ grp.src \in News) =>
        LET out == Returned(grp)
        IN  \A i, j \in 1..Len(out) :
                i < j =>
                    \/ out[i].ThreatLevel > out[j].ThreatLevel
                    \/ /\ out[i].ThreatLevel = out[j].ThreatLevel
                       /\ out[i].Published >= out[j].Published

\* The second feed completed first with the older of two low items, the
\* first feed then added the newer one and an entry too old to be kept: the
\* list returned has the newer item first.
C26_Witness ==
    /\ grp.pc = "returned" /\ grp.src \in News
    /\ grp.order = <<2, 1>>
    /\ Len(grp.items) = 2
    /\ Len(Returned(grp)) = 2
    /\ Returned(grp)[1].ThreatLevel = ThreatLow
    /\ Returned(grp)[2].ThreatLevel = ThreatLow
    /\ Returned(grp)[1].Published > Returned(grp)[2].Published
    /\ grp.items[1] = Returned(grp)[2]
    /\ grp.items[1].Source = 2

\* C27: every item of the list returned by a feed fetch was published no
\* more than 24 hours before it was read from its feed.
C27_WithinLastDay ==
    (grp.pc \in {"returned", "delivered"} /\ grp.src \in News) =>
        \A k \in 1..Len(Returned(grp)) :
            Returned(grp)[k].Published >= grp.clock - DayHours

\* A feed carried an entry older than a day and one exactly a day old: the
\* first is not in the list returned, the second is.
C27_Witness ==
    /\ grp.pc = "returned" /\ grp.src \in News
    /\ \E f \in 1..grp.n :
          /\ grp.outs[f].err = NoErr
          /\ Len(grp.outs[f].entries) = 2
          /\ grp.outs[f].entries[1].Title = ShortLow
          /\ grp.outs[f].entries[1].PublishedParsed = At(-DayHours - 1)
          /\ grp.outs[f].entries[2].Title = LongLow
          /\ grp.outs[f].entries[2].PublishedParsed = At(-DayHours)
    /\ \E k \in 1..Len(Returned(grp)) :
          Returned(grp)[k].Title = LongLow /\ Returned(grp)[k].Published = -DayHours
    /\ \A k \in 1..Len(Returned(grp)) : Returned(grp)[k].Title # ShortLow

\* The entry a row stands for, its score brought into [0, 100].
EntryOf(row) ==
    [Country |-> row.country,
     Score |-> IF row.score < 0 THEN 0 ELSE IF row.score > 100 THEN 100 ELSE row.score,
     Reason |-> row.reason]

EntriesOf(rows) == [k \in 1..Len(rows) |-> EntryOf(rows[k])]

\* What the parse gives for the sections that are missing or present.
SectionsRead(c) ==
    /\ c.out.summary = c.said.summary.summary
    /\ c.out.threats = c.said.threats.threats
    /\ ~c.said.risks.has => c.out.risks = <<>>

\* C28 as stated: the parse returns a result for every response; a missing
\* section gives an empty summary or list; the rows whose score is missing or
\* not an integer are skipped and all the other rows are kept, in their order.
C28_BadScoreRowsSkipped ==
    call.pc = "returned" =>
        /\ SectionsRead(call)
        /\ call.out.risks = EntriesOf(SelectSeq(call.said.risks.rows, LAMBDA r : r.int))

\* C28 amended: the rows skipped are those whose score is missing or not an
\* integer and those whose country is empty.
C28_MalformedRowsSkipped ==
    call.pc = "returned" =>
        /\ SectionsRead(call)
        /\ call.out.risks =
              EntriesOf(SelectSeq(call.said.risks.rows,
                                  LAMBDA r : r.int /\ r.country # ""))

\* A response without SUMMARY and THREATS whose risk rows are one without a
\* score, one good row and one with a word for a score.
C28_Witness ==
    /\ call.pc = "returned"
    /\ ~call.said.summary.has /\ ~call.said.threats.has
    /\ Len(call.said.risks.rows) = 3
    /\ call.said.risks.rows[1].country = "Oman"
    /\ call.said.risks.rows[2].country = "Chad"
    /\ call.said.risks.rows[3].country = "Mali"
    /\ call.out = [summary |-> "", threats |-> <<>>,
                   risks |-> <<[Country |-> "Chad", Score |-> 100, Reason |-> "civil war"]>>]

\* C29: every country-risk entry of a parsed response has a score within
\* [0, 100]: a score below 0 is stored as 0, one above 100 as 100, one in
\* range unchanged.
C29_ScoreClamped ==
    call.pc = "returned" =>
        /\ \A k \in 1..Len(call.out.risks) : call.out.risks[k].Score \in 0..100
        /\ \A row \in {call.said.risks.rows[k] : k \in 1..Len(call.said.risks.rows)} :
              \A k \in 1..Len(call.out.risks) :
                  call.out.risks[k].Country = row.country =>
                      call.out.risks[k].Score =
                          (CASE row.score < 0 -> 0
                             [] row.score > 100 -> 100
                             [] OTHER -> row.score)

C29_Witness ==
    /\ call.pc = "returned"
    /\ Len(call.out.risks) = 3
    /\ call.out.risks[1] = [Country |-> "Peru", Score |-> 0, Reason |-> ""]
    /\ call.out.risks[2] = [Country |-> "France", Score |-> 100, Reason |-> "unrest"]
    /\ call.out.risks[3] = [Country |-> "Chad", Score |-> 100, Reason |-> "civil war"]

\* C30: with brief_cache_minutes set to 0 in the configuration file the
\* loaded configuration carries 0, the startup cache load is skipped and no
\* brief request reads the cache.
C30_ZeroDisablesCache ==
    (call.pc = "returned" /\ call.file.brief_cache_minutes = 0) =>
        /\ cfg.BriefCacheMins = 0
        /\ \A t \in btasks : t.load = NoLoad /\ t.cacheMins = 0
        /\ lastMsg # NoMsg => ~lastMsg.fromCache

\* The startup command has put the cached brief on the dashboard although
\* the file says 0.
C30_CacheUsedAtStartup ==
    /\ call.pc = "returned" /\ call.file.brief_cache_minutes = 0
    /\ nkeys = 0
    /\ m.brief # NoBrief
    /\ lastMsg # NoMsg
    /\ lastMsg.fromCache

\* The tab after and before t in the cycle Overview, Global News, Local.
TabAfter(t) == IF t = tabCount - 1 THEN 0 ELSE t + 1
TabBefore(t) == IF t = 0 THEN tabCount - 1 ELSE t - 1

C32_ActiveTabDefined ==
    /\ view.activeTab \in {TabOverview, TabNews, TabLocal}
    /\ \A key \in NextTabKeys : UpdateKey(view, key).activeTab = TabAfter(view.activeTab)
    /\ \A key \in PrevTabKeys : UpdateKey(view, key).activeTab = TabBefore(view.activeTab)
    /\ \A next \in NextTabKeys, prev \in PrevTabKeys :
            UpdateKey(UpdateKey(view, next), prev) = view

C32_OnlyTheTabChanges ==
    view'.activeTab # view.activeTab =>
        /\ view' = [view EXCEPT !.activeTab = view'.activeTab]
        /\ UNCHANGED <<dashVars, briefVars, auxVars, call, setup>>

\* C32: the active tab is always one of the three tabs; tab/right/l go to
\* the next tab and shift+tab/left/h to the previous one, cyclically, so
\* that next followed by previous restores the state; a step that switches
\* the tab changes nothing but the active tab.
C32_TabsCycle == []C32_ActiveTabDefined /\ [][C32_OnlyTheTabChanges]_vars

\* The tab was switched away from the Global News pane after its selection
\* had moved and its viewport had scrolled.
C32_Witness ==
    /\ view.activeTab = TabOverview
    /\ view.selectedNewsIdx > 0
    /\ view.viewports[TabNews].YOffset > 0

\* The selection one item further (by +1 or -1), kept within a list of n.
OneItem(idx, by, n) == minInt(maxInt(idx + by, 0), n - 1)
LineStep(key) == IF key \in {"j", "down"} THEN 1 ELSE -1

\* On the Global News tab, with the selection on an item of the list, a line
\* key moves the selection by one item, the content is rendered again and
\* the viewport scrolled to the selection.
C35_GlobalSelectionMoves ==
    (view.activeTab = TabNews /\ view.selectedNewsIdx < view.globalNews) =>
        \A key \in LineKeys :
            LET after == UpdateKey(view, key)
                idx == OneItem(view.selectedNewsIdx, LineStep(key), view.globalNews)
                drawn == renderNewsContent([view EXCEPT !.selectedNewsIdx = idx])
            IN  /\ after.selectedNewsIdx = idx
                /\ after.newsHeaderLines = drawn.hdr
                /\ after.viewports[TabNews] =
                       scrollNewsIntoView(SetContent(view.viewports[TabNews],
                                                     ContentLines(drawn)),
                                          drawn.hdr, idx)

\* The same on the Local tab.
C35_LocalSelectionMoves ==
    (view.activeTab = TabLocal /\ view.selectedLocalNewsIdx < view.localNews) =>
        \A key \in LineKeys :
            LET after == UpdateKey(view, key)
                idx == OneItem(view.selectedLocalNewsIdx, LineStep(key), view.localNews)
                drawn == renderLocalContent([view EXCEPT !.selectedLocalNewsIdx = idx])
            IN  /\ after.selectedLocalNewsIdx = idx
                /\ after.localNewsHeaderLines = drawn.hdr
                /\ after.viewports[TabLocal] =
                       scrollNewsIntoView(SetContent(view.viewports[TabLocal],
                                                     ContentLines(drawn)),
                                          drawn.hdr, idx)

\* C35: on both news tabs j/down and k/up move the selection by one item,
\* clamped at the two ends of the list, and the move is followed by a
\* content recompute and a scroll-into-view pass.
C35_LineKeysMoveSelection == C35_GlobalSelectionMoves /\ C35_LocalSelectionMoves

\* The articles a pane's content shows.
Drawn(r) == {r.content[k].item : k \in DOMAIN r.content} \ {-1}

\* Line number n of the content, counted from 0.
LineAt(r, n) == IF n + 1 \in DOMAIN r.content THEN r.content[n + 1] ELSE Text("none")

\* Article i occupies the three lines from hdr + 3 i on.
HeaderCounted(r) ==
    \A i \in Drawn(r) :
        /\ LineAt(r, r.hdr + linesPerItem * i) = Line("meta", i)
        /\ LineAt(r, r.hdr + linesPerItem * i + 1) = Line("title", i)
        /\ LineAt(r, r.hdr + linesPerItem * i + 2) = Line("separator", i)

\* C34: the header line count returned with the global news content, and
\* the one returned with the local content, is the number of lines before
\* the first article, so that article i occupies the lines headerLines + 3 i
\* to headerLines + 3 i + 2.
C34_HeaderLinesPrecedeArticles ==
    /\ HeaderCounted(renderNewsContent(view))
    /\ HeaderCounted(renderLocalContent(view))

\* The view after a key that moves the selection, after a news result, a
\* weather result or a brief result: the handlers that render a news pane
\* again.
MovesSelection(v, key) ==
    \/ key \in LineKeys /\ v.activeTab = TabNews /\ v.globalNews > 0
    \/ key \in {"d", "u", "G"} /\ v.activeTab \in {TabNews, TabLocal}
    \/ key = "g" /\ v.activeTab = TabNews
Regenerated(v) ==
    {UpdateKey(v, key) : key \in {k \in NavKeys : MovesSelection(v, k)}}
    \cup {UpdateNewsView(v, src, n, err) :
             src \in News, n \in 0..MaxNews, err \in {NoErr} \cup Errors}
    \cup {UpdateWeatherView(v, forecast, err) :
             forecast \in 0..MaxForecast, err \in {NoErr} \cup Errors}
    \cup {UpdateBriefView(v, risks, err) :
             risks \in 0..MaxRisks, err \in {NoErr} \cup Errors}

\* The selected article of a pane as scrollNewsIntoView sees it.
Selected(v, tab) ==
    IF tab = TabNews
    THEN [headerLines |-> v.newsHeaderLines, selectedIdx |-> v.selectedNewsIdx,
          shown |-> minInt(v.globalNews, MaxDrawnGlobal)]
    ELSE [headerLines |-> v.localNewsHeaderLines, selectedIdx |-> v.selectedLocalNewsIdx,
          shown |-> IF v.errLocal THEN 0 ELSE minInt(v.localNews, MaxDrawnLocal)]

\* The selection is an article of the pane other than the first, the
\* viewport is at least one article high and the span lies in the content.
SpanFits(v, tab) ==
    /\ Selected(v, tab).selectedIdx \in 1..(Selected(v, tab).shown - 1)
    /\ v.viewports[tab].Height >= linesPerItem
    /\ SpanBottom(Selected(v, tab)) <= v.viewports[tab].lines - 1

\* C33: after every regeneration of a news pane's content (selection move,
\* news result, weather result, brief result) the selected article's span,
\* taken with the header line count just returned, lies within the visible
\* window of the pane.
C33_SpanVisibleAfterRegeneration ==
    [][view' \in Regenerated(view) =>
          \A tab \in {TabNews, TabLocal} :
              (/\ view'.newsHeaderLines = renderNewsContent(view').hdr
               /\ view'.localNewsHeaderLines = renderLocalContent(view').hdr
               /\ SpanFits(view', tab)
               /\ SpanVisible(Selected(view, tab), view.viewports[tab])) =>
                  SpanVisible(Selected(view', tab), view'.viewports[tab])]_vars

\* The briefs GenerateBrief returns without calling the synthesis service.
PlaceholderSummaries == {"No GROQ_API_KEY set", "No news items available to summarize."}

\* C38: only briefs produced by a synthesis call are written to the disk
\* cache: no save is started for a placeholder brief, brief.json never holds
\* one, and none is served as a cached brief.
C38_PlaceholderNeverCached ==
    /\ \A s \in savers : s.b = NoBrief \/ s.b.Summary \notin PlaceholderSummaries
    /\ fs.cache.kind = "json" => fs.cache.cb.summary \notin PlaceholderSummaries
    /\ \A t \in btasks :
            (t.pc = "ready" /\ t.msg.fromCache) =>
                t.msg.brief.Summary \notin PlaceholderSummaries

\* The brief requests issued (fetchBrief commands) whose result Update has
\* not processed yet.
BriefRequestsInFlight == {t \in btasks : t.kind = "fetch"}

\* C37: whenever a brief request is in flight the brief is in the loading
\* set, so the flag is cleared only when no request remains in flight.
C37_LoadingWhileInFlight ==
    BriefRequestsInFlight # {} => "brief" \in m.loading

\* A synthesized brief held is not replaced by one generated before it.
C39_NotOlder ==
    (/\ m.brief # NoBrief /\ m'.brief # NoBrief
     /\ m.brief.Summary \notin PlaceholderSummaries) =>
        m'.brief.GeneratedAt.wall >= m.brief.GeneratedAt.wall

\* C39: the generation time of the brief held never decreases: a cached,
\* older brief that arrives after a freshly generated one does not replace
\* it.
C39_GeneratedAtNeverDecreases == [][C39_NotOlder]_vars

\* The items of the shared list that came from feed f, in the order they
\* were appended.
FromFeed(items, f) ==
    LET OfFeed(x) == x.Source = f
    IN  SelectSeq(items, OfFeed)

\* What feed f has to contribute: nothing if it failed, else its entries
\* with a title and within the last day, in the feed's order.
Contribution(g, f) ==
    IF g.outs[f].err # NoErr THEN <<>>
    ELSE AppendEntries(<<>>, f, g.outs[f].entries, g.clock)

\* C40: a feed goroutine is in its loop only while it holds the mutex, the
\* list is sorted and deduplicated only when every goroutine has finished,
\* and then, before the deduplication, the list holds each in-window item of
\* each parsed feed exactly once and nothing of a feed that failed.
C40_AppendsUnderMutex ==
    /\ \A i \in 1..grp.n : grp.at[i] \in {"loop", "store", "unlock"} => grp.mu = i
    /\ grp.pc = "returned" =>
           /\ \A i \in 1..grp.n : grp.at[i] = "done"
           /\ \A f \in 1..grp.n : FromFeed(grp.items, f) = Contribution(grp, f)
           /\ \A k \in 1..Len(grp.items) : grp.items[k].Source \in 1..grp.n

\* Two feeds of two entries each, one entry of the first without a title
\* and one of the second too old; the second goroutine got the mutex first.
C40_Witness ==
    /\ grp.pc = "returned"
    /\ Len(grp.outs[1].entries) = 2 /\ Len(grp.outs[2].entries) = 2
    /\ Len(Contribution(grp, 1)) = 1 /\ Len(Contribution(grp, 2)) = 1
    /\ Len(grp.items) = 2
    /\ grp.items[1].Source = 2

\* The config.Config doSave would write for the wizard's inputs and the
\* coordinates a successful geocoding returned.
Geocoded(c) ==
    \E msg \in Geocode(c.Location.City, c.Location.Country) :
        /\ msg.err = ""
        /\ c.Location.Latitude = msg.lat
        /\ c.Location.Longitude = msg.lon

\* C31: the API key is optional: on the API key step, Enter with nothing
\* typed into the input takes the wizard on to the location step, so that
\* the setup can be completed without a key.
C31_KeyStepPassedWithoutKey ==
    (setup.phase = "setup" /\ setup.m.step = stepAPIKey
        /\ setup.m.apiKeyInput.value = <<>>)
    => SetupUpdateKey(setup.m, "enter").m.step = stepLocation

\* A change of step is one step forward, or Enter going back from the saving
\* step to the location step after an error, which is cleared.
C36_StepOrder ==
    setup'.m.step # setup.m.step =>
        \/ setup'.m.step = setup.m.step + 1
        \/ /\ setup.m.step = stepSaving /\ setup.m.err # ""
           /\ setup'.m.step = stepLocation /\ setup'.m.err = ""

\* A save is started or done only with a non-empty city and country and the
\* coordinates a successful geocoding returned for them; the done step is
\* reached only with the config file written from the wizard's inputs; an
\* error is shown only on the saving step with no command in flight, and
\* Enter then goes back to the location step with the error cleared.
C36_SavedAfterGeocoding ==
    /\ \A c \in setup.cmds :
           /\ c.kind = "geocode" => c.city # <<>> /\ c.country # <<>>
           /\ c.kind = "save" =>
                  /\ c.cfg.Location.City # <<>> /\ c.cfg.Location.Country # <<>>
                  /\ Geocoded(c.cfg)
    /\ setup.file # NoConfigFile =>
           /\ setup.file.Location.City # <<>> /\ setup.file.Location.Country # <<>>
           /\ Geocoded(setup.file)
    /\ setup.m.step = stepDone =>
           /\ setup.file # NoConfigFile
           /\ setup.file =
                  doSave(setup.m, setup.file.Location.Latitude,
                         setup.file.Location.Longitude).cfg
    /\ setup.m.err # "" =>
           /\ setup.m.step = stepSaving
           /\ setup.cmds = {}
           /\ SetupUpdateKey(setup.m, "enter") =
                  [m |-> [setup.m EXCEPT !.step = stepLocation, !.err = ""],
                   cmd |-> NoCmd]

====
